---- MODULE Spec2Model ----
(***************************************************************************)
(* Price-history acquisition layer of the backend:                         *)
(*   services/price_history_service.py  (PriceHistoryService, TTL cache)   *)
(*   services/sp500_market_service.py   (SP500MarketService: validation,   *)
(*                                       retry, NAV, last-good, synthetic) *)
(*                                                                         *)
(* Prices are fixed-point numbers in thousandths (4200.00 is 4200000), so  *)
(* that round(x, 2) is a real operation.  Dates are day ordinals counted   *)
(* from 2015-01-01 (2020-01-01 is day 1826).  The clock is in minutes.     *)
(***************************************************************************)
EXTENDS Integers, Sequences, FiniteSets, TLC

\* ------------------------------------------------------------------ bounds
\* Number of top-level calls made in one behaviour.
MaxCalls == 3
\* Largest clock value (minutes); the clock stops advancing there.
MaxTime == 15
\* Number of times _fallback_history is invoked with the same arguments.
MaxInvocations == 2

\* --------------------------------------------------------------- constants
None == "None"

\* PriceHistoryService.__init__: ttl = timedelta(minutes=15)
Ttl == 15
\* PriceHistoryService.__init__: max_retries = 3
MaxRetries == 3
\* A list of sleeps with one entry more.
BackoffsFour == <<200, 500, 1000, 2000>>

\* backoffs = [0.2, 0.5, 1.0]: the number of attempts of the inner loops
Backoffs == <<200, 500, 1000>>

Indexes == {"SP500", "sp500_jpy"}

price_type_map == [SP500 |-> "index", sp500_jpy |-> "index_jpy"]

start_prices == [SP500 |-> 4000000, sp500_jpy |-> 4000000]

min_points_map == [SP500 |-> 450, sp500_jpy |-> 450]

\* annual drift of the synthetic series, per million per business day
\* (annual_drift / 260.0: 0.07 / 260 = 0.000269)
daily_drift_map == [SP500 |-> 269, sp500_jpy |-> 269]

\* ---------------------------------------------------------------- helpers
Max(a, b) == IF a >= b THEN a ELSE b

Abs(a) == IF a >= 0 THEN a ELSE -a

\* round(float(v), 2) on a value in thousandths: to the nearest hundredth,
\* ties to even.
Round2(v) ==
    LET q == v \div 10
        r == v % 10
    IN  IF r < 5 THEN q * 10
        ELSE IF r > 5 THEN (q + 1) * 10
        ELSE IF q % 2 = 0 THEN q * 10 ELSE (q + 1) * 10

\* date.weekday(): Monday is 0; day 0 (2015-01-01) is a Thursday.
Weekday(d) == (d + 3) % 7

IsLeap(y) == y % 4 = 0 /\ (y % 100 # 0 \/ y % 400 = 0)

YearLen(y) == IF IsLeap(y) THEN 366 ELSE 365

RECURSIVE YDayFrom(_, _)
YDayFrom(d, y) == IF d < YearLen(y) THEN d + 1 ELSE YDayFrom(d - YearLen(y), y + 1)

\* date.timetuple().tm_yday of day ordinal d
YDay(d) == YDayFrom(d, 2015)

\* ------------------------------------------------------------------- state
VARIABLES
    nav_api_map,        \* SP500MarketService.nav_api_map (from the environment)
    allow_synth_map,    \* SP500MarketService.allow_synth_map (from the environment)
    last_good_history,  \* SP500MarketService._last_good_history
    cache,              \* PriceHistoryService._cache: key -> CacheEntry
    now,                \* datetime.utcnow(), in minutes
    pc,                 \* where the get_history call in progress stands
    hist,               \* locals of get_history
    result,             \* what the call gave its caller, and how it came to it
    calls,              \* top-level calls made so far
    focus,              \* the index the calls of this behaviour ask for
    fn,                 \* a function applied on its own: its arguments and result
    bt,                 \* BacktestService.run_backtest: the locals of the run
    push                \* PushService: the stored registrations and the calls made

vars == <<nav_api_map, allow_synth_map, last_good_history, cache, now, pc, hist,
          result, calls, focus, fn, bt, push>>

\* The state of the acquisition layer, and the rest.
acquisition == <<nav_api_map, allow_synth_map, last_good_history, cache, now, pc,
                 hist, result, calls, focus>>

aside == <<fn, bt, push>>

\* No function is being applied; no backtest runs.
NoFn == [op |-> None]

NoBt == [pc |-> "none"]

NoPush == [pc |-> "none"]

\* ------------------------------------------------------------- validation
\* A close that is None, and one that is float('nan'): values apart from every
\* price.
NullClose == -999999999

NaNClose == -999999998

\* The price loop rejecting a change of 20% as well.
BadPointFrom20(history, i) ==
    \/ history[i][2] = NullClose
    \/ history[i][2] = NaNClose
    \/ history[i][2] <= 0
    \/ i > 1 /\ Abs(history[i][2] - history[i - 1][2]) >= history[i - 1][2] \div 5

\* Whether the price loop (lines 159-171) rejects point i, the points before
\* it having passed: a close that is None, NaN or not positive, or
\* abs((value - prev) / prev) > 0.20
\* (on integers: abs(value - prev) > prev / 5).
BadPoint(history, i) ==
    \/ history[i][2] = NullClose
    \/ history[i][2] = NaNClose
    \/ history[i][2] <= 0
    \/ i > 1 /\ Abs(history[i][2] - history[i - 1][2]) > history[i - 1][2] \div 5

\* Index of the first point the price loop rejects, 0 when there is none.
FirstBadPoint(history) ==
    LET bad == {i \in 1..Len(history) : BadPoint(history, i)}
    IN  IF bad = {} THEN 0 ELSE CHOOSE i \in bad : \A j \in bad : i <= j

\* _validate_history with the SP500 floor at 300.
ValidateHistoryFloor300(history, index_type) ==
    IF Len(history) = 0 THEN "empty_history"
    ELSE
      LET min_points == IF index_type \in DOMAIN min_points_map
                        THEN min_points_map[index_type] ELSE 300
          span_days  == Max(0, history[Len(history)][1] - history[1][1])
          bad        == FirstBadPoint(history)
          last_price == history[Len(history)][2]
      IN  IF Len(history) < 30 THEN "too_few_points"
          ELSE IF span_days >= 365 * 3 /\ Len(history) < min_points
               THEN "insufficient_points"
          ELSE IF bad # 0 /\ history[bad][2] = NullClose THEN "invalid_price:none"
          ELSE IF bad # 0 /\ history[bad][2] = NaNClose THEN "invalid_price:nan"
          ELSE IF bad # 0 /\ history[bad][2] <= 0 THEN "invalid_price:non_positive"
          ELSE IF bad # 0 THEN "abnormal_daily_jump"
          ELSE IF index_type = "SP500" /\ last_price < 300000 THEN "abnormal_sp500_price"
          ELSE IF index_type \in DOMAIN start_prices
                  /\ last_price < (start_prices[index_type] * 4) \div 10
               THEN "abnormal_scale_low"
          ELSE IF index_type \in DOMAIN start_prices
                  /\ last_price > start_prices[index_type] * 5
               THEN "abnormal_scale_high"
          ELSE None

\* _validate_history: the reason for rejecting the series, None when there is
\* none.  The reasons are the tags the code's strings start with.
ValidateHistory(history, index_type) ==
    IF Len(history) = 0 THEN "empty_history"
    ELSE
      LET min_points == IF index_type \in DOMAIN min_points_map
                        THEN min_points_map[index_type] ELSE 300
          span_days  == Max(0, history[Len(history)][1] - history[1][1])
          bad        == FirstBadPoint(history)
          last_price == history[Len(history)][2]
      IN  IF Len(history) < 30 THEN "too_few_points"
          ELSE IF span_days >= 365 * 3 /\ Len(history) < min_points
               THEN "insufficient_points"
          ELSE IF bad # 0 /\ history[bad][2] = NullClose THEN "invalid_price:none"
          ELSE IF bad # 0 /\ history[bad][2] = NaNClose THEN "invalid_price:nan"
          ELSE IF bad # 0 /\ history[bad][2] <= 0 THEN "invalid_price:non_positive"
          ELSE IF bad # 0 THEN "abnormal_daily_jump"
          ELSE IF index_type = "SP500" /\ last_price < 3000000 THEN "abnormal_sp500_price"
          ELSE IF index_type \in DOMAIN start_prices
                  /\ last_price < (start_prices[index_type] * 4) \div 10
               THEN "abnormal_scale_low"
          ELSE IF index_type \in DOMAIN start_prices
                  /\ last_price > start_prices[index_type] * 5
               THEN "abnormal_scale_high"
          ELSE None

\* [(d, round(float(v), 2)) for d, v in history]
RoundSeries(history) ==
    [i \in 1..Len(history) |-> <<history[i][1], Round2(history[i][2])>>]

\* ------------------------------------------------------- synthetic series
IndexCode(index_type) == IF index_type = "SP500" THEN 1 ELSE 2

\* The draws taken from a generator that the invocations share: the k-th draw
\* of an invocation comes after the draws of the invocations before it.
NoiseShared(index_type, start, end, k) ==
    LET seed == (IndexCode(index_type) * 1009 + start * 7919 + end * 10473) % 1000003
        k1   == k + 100 * (Len(fn.outs) + fn.others)
    IN  ((((seed + k1 * k1 * 31 + k1 * 17) % 1000003) * 1103 + 12345) % 12001) - 6000

\* random.Random(f"{index_type}:{start}:{end}"): the k-th uniform(-0.006, 0.006)
\* draw, per million, a fixed function of the seed and k.
Noise(index_type, start, end, k) ==
    LET seed == (IndexCode(index_type) * 1009 + start * 7919 + end * 10473) % 1000003
    IN  ((((seed + k * k * 31 + k * 17) % 1000003) * 1103 + 12345) % 12001) - 6000

\* One pass of the while loop of _fallback_history (lines 414-424) on the loop
\* state s = [price, k, history]; k counts the draws made from the generator.
FallbackDay(index_type, start, end, current, s) ==
    IF Weekday(current) < 5 THEN
      LET noise  == Noise(index_type, start, end, s.k)
                    - (IF (YDay(current) \div 182) % 2 = 1 THEN 2000 ELSE 0)
          change == daily_drift_map[index_type] + noise
          price1 == Max(1000, s.price + ((s.price \div 1000) * change) \div 1000)
      IN  [price |-> price1, k |-> s.k + 1,
           history |-> Append(s.history, <<current, Round2(price1)>>)]
    ELSE s

\* The loop over the days current..last (a stretch of at most 50 days).
RECURSIVE FallbackDays(_, _, _, _, _, _)
FallbackDays(index_type, start, end, current, last, s) ==
    IF current > last THEN s
    ELSE LET s1 == FallbackDay(index_type, start, end, current, s)
         IN  \* the pass is evaluated before the next one starts
             IF s1.price >= 1000   \* max(1.0, ...)
             THEN FallbackDays(index_type, start, end, current + 1, last, s1)
             ELSE s1

\* The loop over current..end, taken in stretches of 50 days.
RECURSIVE FallbackLoop(_, _, _, _, _)
FallbackLoop(index_type, start, end, current, s) ==
    IF current > end THEN s.history
    ELSE LET last == IF current + 49 < end THEN current + 49 ELSE end
             s1   == FallbackDays(index_type, start, end, current, last, s)
         IN  \* the stretch is evaluated before the next one starts
             IF s1.price >= 1000   \* max(1.0, ...)
             THEN FallbackLoop(index_type, start, end, last + 1, s1)
             ELSE s1.history

FallbackHistory(start, end, index_type) ==
    FallbackLoop(index_type, start, end, start,
                 [price |-> start_prices[index_type], k |-> 0, history |-> <<>>])

\* ------------------------------------------------- conversion of fetches
\* _fetch_yfinance_history_with_retry, line 271:
\* [(self._to_iso_date(idx), round(float(val), 2)) for idx, val in closes.items()]
ToHistory(closes) == RoundSeries(closes)

\* close_usd * usdjpy of two values in thousandths, in thousandths
MulPrice(a, b) == (a \div 1000) * b + ((a % 1000) * b) \div 1000

\* The close of the point of series `closes` dated d.
CloseAt(closes, d) == closes[CHOOSE i \in 1..Len(closes) : closes[i][1] = d][2]

HasDate(closes, d) == \E i \in 1..Len(closes) : closes[i][1] = d

\* pd.concat([idx_close, fx_close], axis=1, join="inner"), then the product
\* of the two columns, rounded: the points of idx_close dated in fx_close.
JoinProduct(idx_close, fx_close) ==
    LET common == SelectSeq(idx_close, LAMBDA p : HasDate(fx_close, p[1]))
    IN  [i \in 1..Len(common) |->
           <<common[i][1],
             Round2(MulPrice(common[i][2], CloseAt(fx_close, common[i][1])))>>]

\* _fetch_index_history_jpy on the two downloaded series
FetchIndexHistoryJpy(idx_close, fx_close) == JoinProduct(idx_close, fx_close)

\* ------------------------------------------------------------------ inputs
\* pd.date_range("2020-01-01", periods=n, freq="B"): the i-th business day
\* (i = 0, 1, ...) from Wednesday 2020-01-01, day 1826.
BDay(i) == 1826 + ((i + 2) \div 5) * 7 + ((i + 2) % 5) - 2

\* n closes on consecutive business days: base, base + step, ...; the last
\* one replaced by `last` when last > 0.
Closes(n, base, step, last) ==
    [i \in 1..n |-> <<BDay(i - 1),
                      IF i = n /\ last > 0 THEN last ELSE base + step * (i - 1)>>]

\* The series with the date of point p replaced.
WithDate(history, p, d) == [history EXCEPT ![p] = <<d, history[p][2]>>]

\* What one download (_download_close_series, or the pair of downloads of the
\* JPY path) can give: an exception, or close series.
\* Each response carries a name, by which the record of a call refers to it.
Raised == [id |-> "raised", ok |-> FALSE, closes |-> <<>>, fx |-> <<>>]

Got(id, closes, fx) == [id |-> id, ok |-> TRUE, closes |-> closes, fx |-> fx]

YfResponses ==
    { Raised,
      Got("normal", Closes(41, 4200000, 2000, 0), <<>>),
      Got("subcent", Closes(41, 4100004, 2000, 0), <<>>),      \* valid, sub-cent closes
      Got("drop", Closes(41, 4200000, 0, 2000000), <<>>) }     \* last close is 2000

JpyResponses ==
    { Raised,
      Got("jpy", Closes(41, 42000, 20, 0), Closes(41, 100004, 0, 0)),       \* valid
      Got("high", Closes(41, 4200000, 2000, 0), Closes(41, 150000, 0, 0)) } \* 630000 JPY

\* The response of that name.
Response(id) == CHOOSE r \in YfResponses \cup JpyResponses : r.id = id

\* What the NAV API call of _fetch_nav_history gives: [] (an error, a non-list
\* or an empty list) or the (date, close) pairs of the reply.
NavResponses ==
    { <<>>,
      Closes(35, 4300004, 1000, 0),                   \* valid
      Closes(35, 2500000, 0, 0),                      \* closes of 2500
      WithDate(Closes(35, 4310000, 1000, 0), 11, BDay(9)) }  \* a date given twice

\* The requested (start, end) ranges: 2020-01-01..2020-03-31 and the
\* week-end 2020-01-04..2020-01-05.
Ranges == { <<1826, 1916>>, <<1829, 1830>> }

\* date.today() of get_price_history (2020-03-31)
Today == 1916


config == <<nav_api_map, allow_synth_map, focus>>

\* an empty dict
EmptyDict == [k \in {} |-> k]

NoError == [msg |-> None, attempt |-> 0]

NoCached == [present |-> FALSE, data |-> <<>>, fetched_at |-> 0]

\* The two tables, as a call finds them.
Tables(c, g) == [cache |-> c, last_good_history |-> g]

NoHist == [index_type |-> None, start |-> 0, end |-> 0, key |-> <<>>, now |-> 0,
           cached |-> NoCached, attempt |-> 0, last_error |-> NoError,
           downloads |-> 0, before |-> Tables(EmptyDict, EmptyDict)]

NoResult == [op |-> None, index_type |-> None, key |-> <<>>, kind |-> "none",
             value |-> <<>>, source |-> None, error |-> NoError,
             sources |-> <<>>, attempts |-> 0, failures |-> 0, resp |-> None,
             downloads |-> 0, fallback_allowed |-> FALSE,
             before |-> Tables(EmptyDict, EmptyDict)]

\* _cache_key: f"{index_type}:{start.isoformat()}:{end.isoformat()}"
CacheKey(index_type, start, end) == <<index_type, start, end>>

\* _resolve_nav_base: self.nav_api_map.get(index_type)
ResolveNavBase(index_type) ==
    IF index_type \in DOMAIN nav_api_map THEN nav_api_map[index_type] ELSE None

\* _allow_synthetic_for_index: self.allow_synth_map.get(index_type, True)
AllowSyntheticForIndex(index_type) ==
    IF index_type \in DOMAIN allow_synth_map THEN allow_synth_map[index_type] ELSE TRUE

\* The environment sets the NAV base and the synthetic-fallback flag of SP500
\* (SP500_NAV_API_BASE, SP500_ALLOW_SYNTHETIC_FALLBACK); sp500_jpy has neither.
Init ==
    /\ focus \in Indexes
    /\ nav_api_map \in [{"SP500"} -> IF focus = "SP500" THEN {None, "https://nav.example"}
                                     ELSE {None}]
    /\ allow_synth_map \in { [SP500 |-> b, sp500_jpy |-> TRUE]
                              : b \in IF focus = "SP500" THEN BOOLEAN ELSE {TRUE} }
    /\ last_good_history = EmptyDict
    /\ cache = EmptyDict
    /\ now = 0
    /\ pc = "idle"
    /\ hist = NoHist
    /\ result = NoResult
    /\ calls = 0
    /\ fn = NoFn
    /\ bt = NoBt
    /\ push = NoPush

\* -------------------------------------------------------- market service
\* _update_last_good_history
UpdateLastGoodHistory(index_type, history) ==
    (index_type :> RoundSeries(history)) @@ last_good_history

\* The candidate series of one attempt (lines 270-271; 219) and the error of
\* the attempt (lines 272 and 291-293; 220 and 232-234), None when the
\* candidate is accepted.
Candidate(index_type, resp) ==
    IF ~resp.ok THEN <<>>
    ELSE IF price_type_map[index_type] = "index_jpy"
         THEN FetchIndexHistoryJpy(resp.closes, resp.fx)
         ELSE ToHistory(resp.closes)

AttemptError(index_type, resp) ==
    IF ~resp.ok THEN "download_error"
    ELSE IF price_type_map[index_type] = "index_jpy" /\ Candidate(index_type, resp) = <<>>
         THEN "no overlapping dates for index and fx"
         ELSE ValidateHistory(Candidate(index_type, resp), index_type)

\* The attempts the provider makes possible, each with its candidate series
\* and its error.
YfAttempts ==
    { [resp |-> r, history |-> Candidate("SP500", r), reason |-> AttemptError("SP500", r)]
      : r \in YfResponses }

JpyAttempts ==
    { [resp |-> r, history |-> Candidate("sp500_jpy", r),
       reason |-> AttemptError("sp500_jpy", r)] : r \in JpyResponses }

Attempts(index_type) ==
    IF price_type_map[index_type] = "index_jpy" THEN JpyAttempts ELSE YfAttempts

\* The retry loop of _fetch_yfinance_history_with_retry (268-303) and of
\* _get_validated_index_jpy_history (217-244), from pass number `attempt` on:
\* the ways it can end.  A pass that accepts its candidate returns; another
\* records last_error and, if passes are left, sleeps and goes on.
RECURSIVE RetryLoop(_, _, _, _)
RetryLoop(index_type, attempt, last_error, failures) ==
    UNION { IF a.reason = None
            THEN { [accepted |-> TRUE, history |-> a.history, attempts |-> attempt,
                    failures |-> failures, last_error |-> NoError, resp |-> a.resp.id] }
            ELSE LET err == [msg |-> a.reason, attempt |-> attempt]
                 IN  IF attempt < Len(Backoffs)
                     THEN RetryLoop(index_type, attempt + 1, err, failures + 1)
                     ELSE { [accepted |-> FALSE, history |-> <<>>, attempts |-> attempt,
                             failures |-> failures + 1, last_error |-> err,
                             resp |-> a.resp.id] }
          : a \in Attempts(index_type) }

\* The ways the whole loop can go.
YfLoops == RetryLoop("SP500", 1, NoError, 0)

JpyLoops == RetryLoop("sp500_jpy", 1, NoError, 0)

Loops(index_type) ==
    IF price_type_map[index_type] = "index_jpy" THEN JpyLoops ELSE YfLoops

\* What a market-service call gives: a value or a raised error, with the
\* last-good table it leaves and the record of how it went (the sources it
\* consulted in order, the passes of the retry loop, the last response).
Outcome(kind, value, source, error, table, sources, loop) ==
    [kind |-> kind, value |-> value, source |-> source, error |-> error,
     last_good_history |-> table, sources |-> sources, attempts |-> loop.attempts,
     failures |-> loop.failures, resp |-> loop.resp]

NoLoop == [accepted |-> FALSE, history |-> <<>>, attempts |-> 0, failures |-> 0,
           last_error |-> NoError, resp |-> None]

Primaries(n) == [i \in 1..n |-> "primary"]

\* The same with the last-good entry taken out of the table when it is used.
FetchWithRetryPop(index_type) ==
    { IF loop.accepted
      THEN Outcome("value", loop.history, "primary", NoError,
                   UpdateLastGoodHistory(index_type, loop.history),
                   Primaries(loop.attempts), loop)
      ELSE IF index_type \in DOMAIN last_good_history
      THEN Outcome("value", last_good_history[index_type], "last_good", NoError,
                   [i \in DOMAIN last_good_history \ {index_type} |-> last_good_history[i]],
                   Append(Primaries(loop.attempts), "last_good"), loop)
      ELSE Outcome("raise", <<>>, None, loop.last_error, last_good_history,
                   Append(Primaries(loop.attempts), "last_good"), loop)
      : loop \in Loops(index_type) }

\* _fetch_yfinance_history_with_retry (262-319) and
\* _get_validated_index_jpy_history (211-260): the loop, then the last-good
\* series, then the last error raised.
FetchWithRetry(index_type) ==
    { IF loop.accepted
      THEN Outcome("value", loop.history, "primary", NoError,
                   UpdateLastGoodHistory(index_type, loop.history),
                   Primaries(loop.attempts), loop)
      ELSE IF index_type \in DOMAIN last_good_history
      THEN Outcome("value", last_good_history[index_type], "last_good", NoError,
                   last_good_history, Append(Primaries(loop.attempts), "last_good"), loop)
      ELSE Outcome("raise", <<>>, None, loop.last_error, last_good_history,
                   Append(Primaries(loop.attempts), "last_good"), loop)
      : loop \in Loops(index_type) }

\* An except clause that generates the synthetic series whether or not the
\* fallback is allowed.
ExceptClauseAlways(o, index_type, fallback_allowed, fallback) ==
    IF o.kind # "raise" THEN o
    ELSE IF index_type \in DOMAIN o.last_good_history
    THEN [o EXCEPT !.kind = "value", !.value = o.last_good_history[index_type],
                   !.source = "last_good", !.error = NoError]
    ELSE [o EXCEPT !.kind = "value", !.value = fallback,
                   !.source = "synthetic", !.error = NoError,
                   !.sources = Append(@, "synthetic")]

\* The except clause of get_price_history_range (530-553) and of
\* get_price_history (471-494) on an outcome of the try block; `fallback` is
\* the synthetic series of the call.
ExceptClause(o, index_type, fallback_allowed, fallback) ==
    IF o.kind # "raise" THEN o
    ELSE IF index_type \in DOMAIN o.last_good_history
    THEN [o EXCEPT !.kind = "value", !.value = o.last_good_history[index_type],
                   !.source = "last_good", !.error = NoError]
    ELSE IF ~fallback_allowed THEN o
    ELSE [o EXCEPT !.kind = "value", !.value = fallback,
                   !.source = "synthetic", !.error = NoError,
                   !.sources = Append(@, "synthetic")]

\* The NAV series used without validation.
NavAcceptedUnvalidated(nav_hist, index_type) == Len(nav_hist) > 0

\* Whether the NAV series is used (lines 507-510).
NavAccepted(nav_hist, index_type) ==
    Len(nav_hist) > 0 /\ ValidateHistory(nav_hist, index_type) = None

\* A try block that asks the provider first and the NAV source after it.
TryBlockPrimaryFirst(index_type) ==
    IF price_type_map[index_type] = "index_jpy" \/ ResolveNavBase(index_type) = None
    THEN FetchWithRetry(index_type)
    ELSE UNION { IF o.source = "primary" THEN {o}
                 ELSE { LET nav_hist == RoundSeries(reply)
                            consulted == Append(Primaries(o.attempts), "nav")
                        IN  IF NavAccepted(nav_hist, index_type)
                            THEN [o EXCEPT !.kind = "value", !.value = nav_hist,
                                           !.source = "nav", !.error = NoError,
                                           !.last_good_history =
                                               UpdateLastGoodHistory(index_type, nav_hist),
                                           !.sources = consulted]
                            ELSE [o EXCEPT !.sources = Append(consulted, "last_good")]
                        : reply \in NavResponses }
               : o \in FetchWithRetry(index_type) }

\* The try block of get_price_history_range (501-529) and of get_price_history
\* (442-470): the JPY path, or the NAV request and then the retry loop.
TryBlock(index_type) ==
    IF price_type_map[index_type] = "index_jpy" \/ ResolveNavBase(index_type) = None
    THEN FetchWithRetry(index_type)
    ELSE UNION { LET nav_hist == RoundSeries(reply)
                 IN  IF NavAccepted(nav_hist, index_type)
                     THEN { Outcome("value", nav_hist, "nav", NoError,
                                    UpdateLastGoodHistory(index_type, nav_hist),
                                    <<"nav">>, NoLoop) }
                     ELSE { [o EXCEPT !.sources = <<"nav">> \o @]
                            : o \in FetchWithRetry(index_type) }
               : reply \in NavResponses }

\* get_price_history_range(start, end, allow_fallback, index_type): the ways
\* the call can go.
GetPriceHistoryRange(start, end, allow_fallback, index_type) ==
    LET fallback_allowed == allow_fallback /\ AllowSyntheticForIndex(index_type)
        fallback         == FallbackHistory(start, end, index_type)
    IN  { ExceptClause(o, index_type, fallback_allowed, fallback)
          : o \in TryBlock(index_type) }

\* get_price_history(index_type): the five years up to today.
GetPriceHistory(index_type) ==
    LET fallback == FallbackHistory(Today - 365 * 5, Today, index_type)
    IN  { ExceptClause(o, index_type, AllowSyntheticForIndex(index_type), fallback)
          : o \in TryBlock(index_type) }

\* ------------------------------------------------------- top-level calls
\* What the caller of a market-service call gets: the outcome, with the
\* number of downloads of the whole call and the tables as the call found them.
Returned(op, index_type, key, o, downloads, fallback_allowed, before) ==
    [op |-> op, index_type |-> index_type, key |-> key, kind |-> o.kind,
     value |-> o.value, source |-> o.source, error |-> o.error,
     sources |-> o.sources, attempts |-> o.attempts, failures |-> o.failures,
     resp |-> o.resp, downloads |-> downloads, fallback_allowed |-> fallback_allowed,
     before |-> before]

\* A direct call of get_price_history_range (as BacktestService.run_backtest
\* makes it, with its configured allow_fallback).
CallGetPriceHistoryRange(index_type, start, end, allow_fallback) ==
    /\ pc = "idle"
    /\ calls < MaxCalls
    /\ calls' = calls + 1
    /\ \E o \in GetPriceHistoryRange(start, end, allow_fallback, index_type) :
         /\ last_good_history' = o.last_good_history
         /\ result' = Returned("get_price_history_range", index_type,
                               CacheKey(index_type, start, end), o, o.attempts,
                               allow_fallback /\ AllowSyntheticForIndex(index_type),
                               Tables(cache, last_good_history))
    /\ pc' = "returned"
    /\ UNCHANGED <<aside, config, cache, now, hist>>

\* A call of get_price_history.
CallGetPriceHistory(index_type) ==
    /\ pc = "idle"
    /\ calls < MaxCalls
    /\ calls' = calls + 1
    /\ \E o \in GetPriceHistory(index_type) :
         /\ last_good_history' = o.last_good_history
         /\ result' = Returned("get_price_history", index_type,
                               CacheKey(index_type, Today - 365 * 5, Today), o,
                               o.attempts, AllowSyntheticForIndex(index_type),
                               Tables(cache, last_good_history))
    /\ pc' = "returned"
    /\ UNCHANGED <<aside, config, cache, now, hist>>

\* The cache check with the comparison the wrong way round.
CacheHitReversed(key, t) == key \in DOMAIN cache /\ t - cache[key].fetched_at > Ttl

\* Whether get_history answers from the cache (line 44).
CacheHit(key, t) == key \in DOMAIN cache /\ t - cache[key].fetched_at < Ttl

\* get_history, lines 40-49: the cache check; on a miss the retry loop starts.
CallGetHistory(index_type, start, end) ==
    /\ pc = "idle"
    /\ calls < MaxCalls
    /\ calls' = calls + 1
    /\ LET key == CacheKey(index_type, start, end)
       IN  IF CacheHit(key, now)
           THEN /\ result' = [NoResult EXCEPT !.op = "get_history",
                                !.index_type = index_type, !.key = key,
                                !.kind = "value", !.value = cache[key].data,
                                !.source = "cache",
                                !.before = Tables(cache, last_good_history)]
                /\ pc' = "returned"
                /\ UNCHANGED hist
           ELSE /\ UNCHANGED result
                /\ hist' = [index_type |-> index_type, start |-> start, end |-> end,
                            key |-> key, now |-> now,
                            cached |-> IF key \in DOMAIN cache
                                       THEN [present |-> TRUE, data |-> cache[key].data,
                                             fetched_at |-> cache[key].fetched_at]
                                       ELSE NoCached,
                            attempt |-> 1, last_error |-> NoError, downloads |-> 0,
                            before |-> Tables(cache, last_good_history)]
                /\ pc' = "history_loop"
    /\ UNCHANGED <<aside, config, last_good_history, cache, now>>

\* The cache write with the old entry taking precedence.
StoreCacheKeepOld(key, history, t) == cache @@ (key :> [data |-> history, fetched_at |-> t])

\* The cache write of line 58.
StoreCache(key, history, t) == (key :> [data |-> history, fetched_at |-> t]) @@ cache

\* The same without the test for an empty series.
UsableAny(o) == o.kind = "value"

\* Whether get_history takes what the market service returned (lines 56-57).
Usable(o) == o.kind = "value" /\ Len(o.value) > 0

\* A loop that never runs out of passes.
LoopGoesOnAlways(attempt) == TRUE

\* for attempt in range(1, self._max_retries + 1): whether a pass follows the
\* pass numbered attempt.
LoopGoesOn(attempt) == attempt < MaxRetries

\* get_history, lines 51-75: one pass of the loop, the market-service call
\* included.
HistoryAttempt ==
    /\ pc = "history_loop"
    /\ \E o \in GetPriceHistoryRange(hist.start, hist.end, TRUE, hist.index_type) :
         /\ last_good_history' = o.last_good_history
         /\ IF Usable(o)
            THEN /\ cache' = StoreCache(hist.key, o.value, hist.now)
                 /\ result' = Returned("get_history", hist.index_type, hist.key, o,
                                       hist.downloads + o.attempts,
                                       AllowSyntheticForIndex(hist.index_type),
                                       hist.before)
                 /\ pc' = "returned"
                 /\ hist' = NoHist
            ELSE /\ hist' = [hist EXCEPT
                               !.last_error = IF o.kind = "raise" THEN o.error
                                              ELSE [msg |-> "empty price history",
                                                    attempt |-> 0],
                               !.attempt = IF hist.attempt < MaxRetries THEN @ + 1 ELSE @,
                               !.downloads = @ + o.attempts]
                 /\ pc' = IF LoopGoesOn(hist.attempt) THEN "history_loop"
                          ELSE "history_exhausted"
                 /\ result' = [Returned("get_history", hist.index_type, hist.key, o,
                                        hist.downloads + o.attempts,
                                        AllowSyntheticForIndex(hist.index_type),
                                        hist.before)
                               EXCEPT !.kind = "none"]
                 /\ UNCHANGED cache
    /\ UNCHANGED <<aside, config, now, calls>>

\* get_history, lines 77-87: the stale entry, or PriceHistoryFetchError.
HistoryExhausted ==
    /\ pc = "history_exhausted"
    /\ result' = IF hist.cached.present
                 THEN [result EXCEPT !.kind = "value", !.value = hist.cached.data,
                                     !.source = "stale_cache", !.error = NoError]
                 ELSE [result EXCEPT !.kind = "raise", !.value = <<>>, !.source = None,
                                     !.error = [msg |-> "PriceHistoryFetchError",
                                                attempt |-> hist.last_error.attempt]]
    /\ pc' = "returned"
    /\ hist' = NoHist
    /\ UNCHANGED <<aside, config, last_good_history, cache, now, calls>>

\* The caller has taken what the call gave; the next call can be made.
Resume ==
    /\ pc = "returned"
    /\ pc' = "idle"
    /\ result' = NoResult
    /\ UNCHANGED <<aside, config, last_good_history, cache, now, hist, calls>>

\* The clock advances (between calls).
Tick ==
    /\ pc = "idle"
    /\ \E dt \in {10, 15} :
         /\ now + dt <= MaxTime
         /\ now' = now + dt
    /\ UNCHANGED <<aside, config, last_good_history, cache, pc, hist, result, calls>>

Next ==
    \/ \E r \in Ranges : CallGetHistory(focus, r[1], r[2])
    \/ \E r \in Ranges, allow_fallback \in BOOLEAN :
         CallGetPriceHistoryRange(focus, r[1], r[2], allow_fallback)
    \/ CallGetPriceHistory(focus)
    \/ HistoryAttempt
    \/ HistoryExhausted
    \/ Resume
    \/ Tick

Spec == Init /\ [][Next]_vars

\* The calls of get_history alone.
NextFair ==
    \/ \E r \in Ranges : CallGetHistory(focus, r[1], r[2])
    \/ HistoryAttempt
    \/ HistoryExhausted
    \/ Resume
    \/ Tick

\* A step of the retry loop: the only steps from pc = "history_loop" are the
\* passes of HistoryAttempt, which that value of pc enables.
PassMade == pc = "history_loop"

\* A get_history call in progress goes on: the thread that runs it is
\* scheduled, and each call of the market service comes back.  Weak fairness
\* of HistoryAttempt is written out, with pc = "history_loop" for its
\* enabling condition.
SpecFair ==
    /\ Init /\ [][NextFair]_vars
    /\ ([]<>(pc # "history_loop") \/ []<><<PassMade>>_vars)
    /\ WF_vars(HistoryExhausted)

\* ------------------------------------------- _validate_history on its own
\* The acquisition layer at rest, as after construction with nothing
\* configured.
Parked ==
    /\ focus = "SP500"
    /\ nav_api_map = [SP500 |-> None]
    /\ allow_synth_map = [SP500 |-> TRUE, sp500_jpy |-> TRUE]
    /\ last_good_history = EmptyDict
    /\ cache = EmptyDict
    /\ now = 0
    /\ pc = "idle"
    /\ hist = NoHist
    /\ result = NoResult
    /\ calls = 0

\* n points `gap` days apart from 2020-01-01, all closing at `base`.
Flat(n, base, gap) == [i \in 1..n |-> <<1826 + gap * (i - 1), base>>]

\* The series with the close of point p replaced.
WithClose(history, p, v) == [history EXCEPT ![p] = <<history[p][1], v>>]

\* The closes the series handed to _validate_history are built from: 100,
\* 1600, 3000, 4200 and 20000.
ValidateBases == {100000, 1600000, 3000000, 4200000, 20000000}

\* What replaces a close of `base`: the close itself, a cent more or less, a
\* change of exactly 20% or a cent beyond it, zero, a negative close, None
\* and NaN.
ValidateCloses(base) ==
    { base, base + 10, base - 10,
      (base * 6) \div 5, (base * 6) \div 5 + 10,
      (base * 4) \div 5, (base * 4) \div 5 - 10,
      0, -5000, NullClose, NaNClose }

\* The series handed to _validate_history: 40 points with one close
\* replaced (the first, one in the middle, or the last) or two of them, and
\* series of other lengths and spans (449 points over 1344 days, ...).
ValidateHistories ==
    UNION { { WithClose(Flat(40, base, 1), p, v)
              : p \in {1, 20, 40}, v \in ValidateCloses(base) }
            : base \in ValidateBases }
    \cup { WithClose(WithClose(Flat(40, 4200000, 1), p, 0), 15, 6000000) : p \in {10, 20} }
    \cup { WithClose(WithClose(Flat(40, 4200000, 1), p, NaNClose), 15, NullClose)
           : p \in {10, 20} }
    \cup { <<>>, Flat(1, 4200000, 1), Flat(29, 4200000, 1), Flat(30, 4200000, 1),
           Flat(299, 4200000, 4), Flat(300, 4200000, 4),
           Flat(449, 4200000, 3), Flat(450, 4200000, 3), Flat(449, 4200000, 2) }

\* The indexes it is asked about; "UNKNOWN" is in none of the maps.
ValidateIndexes == Indexes \cup {"UNKNOWN"}

InitValidate ==
    /\ Parked
    /\ bt = NoBt
    /\ push = NoPush
    /\ fn \in { [op |-> "_validate_history", history |-> h, index_type |-> i,
                  done |-> FALSE, reason |-> None]
                : h \in ValidateHistories, i \in ValidateIndexes }

\* reason = self._validate_history(history, index_type)
ApplyValidateHistory ==
    /\ fn.op = "_validate_history"
    /\ ~fn.done
    /\ fn' = [fn EXCEPT !.done = TRUE,
                        !.reason = ValidateHistory(fn.history, fn.index_type)]
    /\ UNCHANGED <<acquisition, bt, push>>

NextValidate == ApplyValidateHistory

SpecValidate == InitValidate /\ [][NextValidate]_vars

\* ------------------------------------------- _fallback_history on its own
\* The (start, end) it is asked for: a start on each day of a week, and ranges
\* of one day to three months; an end before the start as well.
FallbackRanges ==
    { <<start, start + len>> : start \in 1826..1832, len \in {-1, 0, 1, 2, 6, 13, 90} }

InitFallback ==
    /\ Parked
    /\ bt = NoBt
    /\ push = NoPush
    /\ fn \in { [op |-> "_fallback_history", index_type |-> i, start |-> r[1],
                  end |-> r[2], outs |-> <<>>, others |-> 0]
                : i \in Indexes, r \in FallbackRanges }

\* history = self._fallback_history(start, end, index_type)
ApplyFallbackHistory ==
    /\ fn.op = "_fallback_history"
    /\ Len(fn.outs) < MaxInvocations
    /\ fn' = [fn EXCEPT !.outs = Append(@, FallbackHistory(fn.start, fn.end,
                                                           fn.index_type))]
    /\ UNCHANGED <<acquisition, bt, push>>

\* An invocation for another range comes in between.
OtherFallbackHistory ==
    /\ fn.op = "_fallback_history"
    /\ fn.others = 0
    /\ Len(FallbackHistory(fn.start + 1, fn.end + 8, fn.index_type)) > 0
    /\ fn' = [fn EXCEPT !.others = 1]
    /\ UNCHANGED <<acquisition, bt, push>>

NextFallback == ApplyFallbackHistory \/ OtherFallbackHistory

SpecFallback == InitFallback /\ [][NextFallback]_vars

\* ---------------------------------------------------------------- scoring
\* Scores are in hundredths of a point (85.00 = 8500), ratios in ten-thousandths
\* (0.05 = 500), prices and amounts of money in thousandths.

\* None where the code expects a float.
NoneNumber == NullClose

ULTRA_LONG_ATTENUATION_FLOOR == 6000

\* 1.5, in tenths
ULTRA_LONG_ATTENUATION_SLOPE == 15

CONVERGENCE_ADJ_MAX == 8

Min(a, b) == IF a <= b THEN a ELSE b

RECURSIVE Pow10(_)
Pow10(n) == IF n = 0 THEN 1 ELSE 10 * Pow10(n - 1)

\* The first `digits` decimals of r / den, for 0 <= r < den.
RECURSIVE Decimals(_, _, _)
Decimals(r, den, digits) ==
    IF digits = 0 THEN 0
    ELSE ((r * 10) \div den) * Pow10(digits - 1)
         + Decimals((r * 10) % den, den, digits - 1)

\* num / den as a float, kept to `digits` decimals (den # 0).
Quot(num, den, digits) ==
    LET n == Abs(num)
        d == Abs(den)
        q == (n \div d) * Pow10(digits) + Decimals(n % d, d, digits)
    IN  IF (num < 0) = (den < 0) THEN q ELSE -q

\* closes = [p[1] for p in price_history]
ClosesOf(price_history) == [i \in 1..Len(price_history) |-> price_history[i][2]]

\* sum(prices[lo..hi])
RECURSIVE SumRange(_, _, _)
SumRange(prices, lo, hi) ==
    IF lo > hi THEN 0
    ELSE IF lo = hi THEN prices[lo]
    ELSE SumRange(prices, lo, (lo + hi) \div 2)
         + SumRange(prices, (lo + hi) \div 2 + 1, hi)

\* The list of the means without its last value.
MovingAverageShort(prices, window) ==
    IF Len(prices) < window
    THEN [raised |-> TRUE, count |-> 0, values |-> <<>>]
    ELSE [raised |-> FALSE,
          count  |-> Len(prices) - window,
          values |-> [j \in 1..(Len(prices) - window) |->
                        SumRange(prices, j, j + window - 1) \div window]]

\* moving_average(prices, window): raises, or the list of the means and its
\* length
MovingAverage(prices, window) ==
    IF Len(prices) < window
    THEN [raised |-> TRUE, count |-> 0, values |-> <<>>]
    ELSE [raised |-> FALSE,
          count  |-> Len(prices) - window + 1,
          values |-> [j \in 1..(Len(prices) - window + 1) |->
                        SumRange(prices, j, j + window - 1) \div window]]

\* series[-1] of a list of means
LastMean(ma) == ma.values[ma.count]

\* latest_moving_average(prices, window)
LatestMovingAverage(prices, window) ==
    IF Len(prices) < window THEN NoneNumber
    ELSE SumRange(prices, Len(prices) - window + 1, Len(prices)) \div window

\* calculate_ultra_long_mas(price_history)
CalculateUltraLongMas(price_history) ==
    [ma500  |-> LatestMovingAverage(ClosesOf(price_history), 500),
     ma1000 |-> LatestMovingAverage(ClosesOf(price_history), 1000)]

\* below_ratio(price, ma)
BelowRatio(price, ma) ==
    IF ma = NoneNumber \/ ma = 0 THEN NoneNumber
    ELSE IF price >= ma THEN 0
    ELSE Quot(ma - price, ma, 4)

\* The attenuation that looks at the 500-day average alone.
CalculateUltraLongAttenuation500(price, ma500, ma1000) ==
    LET dd500 == BelowRatio(price, ma500)
    IN  IF dd500 = NoneNumber THEN NoneNumber
        ELSE Max(ULTRA_LONG_ATTENUATION_FLOOR,
                 10000 - (dd500 * ULTRA_LONG_ATTENUATION_SLOPE) \div 10)

\* calculate_ultra_long_attenuation(price, ma500, ma1000)
CalculateUltraLongAttenuation(price, ma500, ma1000) ==
    LET dd500    == BelowRatio(price, ma500)
        dd1000   == BelowRatio(price, ma1000)
        ultra_dd == Max(dd500, dd1000)
    IN  IF dd500 = NoneNumber \/ dd1000 = NoneNumber THEN NoneNumber
        ELSE Max(ULTRA_LONG_ATTENUATION_FLOOR,
                 10000 - (ultra_dd * ULTRA_LONG_ATTENUATION_SLOPE) \div 10)

\* clip(value), with lower = 0.0 and upper = 100.0
Clip(value) == Max(0, Min(10000, value))

\* _slope(series, lookback) of a list of means: (last - value N bars ago) / N,
\* to 3 more decimals
Slope(ma, lookback) ==
    IF ma.count < lookback + 1 THEN NoneNumber
    ELSE Quot(ma.values[ma.count] - ma.values[ma.count - lookback], lookback, 3)

\* deviation_trigger and danger_full of detect_ma200_convergence
DeviationTrigger == 500

DangerFull == 2500

Last(series) == series[Len(series)]

\* The points the signals of one side add up to.
Points(conds) ==
    (IF conds[1] THEN 30 ELSE 0) + (IF conds[2] THEN 25 ELSE 0)
    + (IF conds[3] THEN 20 ELSE 0) + (IF conds[4] THEN 10 ELSE 0)
    + (IF conds[5] THEN 15 ELSE 0)

\* detect_ma200_convergence from the deviation on: danger, the extreme zones,
\* the signals of the side and the speed
ConvergenceAt(price, ma10_series, ma25_series, ma10, ma25, ma50, deviation_200) ==
    LET danger == Min((Abs(deviation_200) * 10000) \div DangerFull, 10000)
        upper_extreme == deviation_200 >= DeviationTrigger
        lower_extreme == deviation_200 <= -DeviationTrigger
        ma10_slope == Slope(ma10_series, 5)
        ma25_slope == Slope(ma25_series, 5)
        down == <<ma10 < ma25, ma25 <= ma50,
                  ma10_slope # NoneNumber /\ ma10_slope < 0,
                  ma25_slope # NoneNumber /\ ma25_slope <= 0,
                  price < ma10>>
        up   == <<ma10 > ma25, ma25 >= ma50,
                  ma10_slope # NoneNumber /\ ma10_slope > 0,
                  ma25_slope # NoneNumber /\ ma25_slope >= 0,
                  price > ma10>>
        stack_complete == IF upper_extreme THEN ma10 < ma25 /\ ma25 < ma50
                          ELSE ma10 > ma25 /\ ma25 > ma50
        stack_partial  == IF upper_extreme THEN ma10 < ma25 /\ ~(ma25 <= ma50)
                          ELSE ma10 > ma25 /\ ~(ma25 >= ma50)
        strong == IF upper_extreme THEN down[3] ELSE up[3]
    IN  IF ~(upper_extreme \/ lower_extreme)
        THEN [side |-> "neutral", score |-> 0, speed |-> "unknown",
              danger |-> danger, deviation_200 |-> deviation_200]
        ELSE [side   |-> IF upper_extreme THEN "down_convergence"
                         ELSE "up_convergence",
              score  |-> Max(0, Min(Points(IF upper_extreme THEN down ELSE up), 100)),
              speed  |-> IF stack_complete /\ strong THEN "fast"
                         ELSE IF stack_partial /\ strong THEN "normal"
                         ELSE IF strong THEN "slow" ELSE "unknown",
              danger |-> danger, deviation_200 |-> deviation_200]

\* detect_ma200_convergence(closes): side, score (points), speed, danger and
\* deviation_200 (in hundredths of a percent)
DetectMa200Convergence(closes) ==
    IF Len(closes) < 200
    THEN [side |-> "neutral", score |-> 0, speed |-> "unknown", danger |-> 0,
          deviation_200 |-> NoneNumber]
    ELSE
    LET price == Last(closes)
        ma10_series == MovingAverage(closes, 10)
        ma25_series == MovingAverage(closes, 25)
        ma200 == LastMean(MovingAverage(closes, 200))
    IN  ConvergenceAt(price, ma10_series, ma25_series,
                      LastMean(ma10_series), LastMean(ma25_series),
                      LastMean(MovingAverage(closes, 50)),
                      Quot(price - ma200, ma200, 4))

\* The adjustment with the signs of the two sides exchanged.
CalcConvergenceAdjustmentSwapped(convergence, amp) ==
    LET raw == (amp * convergence.score * convergence.danger) \div 10000
    IN  IF convergence.side = "down_convergence" THEN -raw
        ELSE IF convergence.side = "up_convergence" THEN raw
        ELSE 0

\* _calc_convergence_adjustment(convergence, amp)
CalcConvergenceAdjustment(convergence, amp) ==
    LET raw == (amp * convergence.score * convergence.danger) \div 10000
    IN  IF convergence.side = "down_convergence" THEN raw
        ELSE IF convergence.side = "up_convergence" THEN -raw
        ELSE 0

\* windows = sorted(set([20, 60, 200, base_window]))
Windows(base_window) == {20, 60, 200, base_window}

Smallest(S) == CHOOSE x \in S : \A y \in S : x <= y

Largest(S) == CHOOSE x \in S : \A y \in S : x >= y

\* the base score of calculate_technical_score, from d in hundredths of a percent
TBase(d) ==
    IF d <= -2000 THEN 0
    ELSE IF d < 0 THEN (30 * (d + 2000)) \div 20
    ELSE IF d < 1000 THEN 3000 + (20 * d) \div 10
    ELSE IF d < 2500 THEN 5000 + (30 * (d - 1000)) \div 15
    ELSE 10000

\* is_increasing(series[-20:]) and is_decreasing(series[-20:]) of a list of
\* means: the slice has 20 values when the list has, and then starts 19 back.
IsIncreasing(ma) == ma.count >= 20 /\ ma.values[ma.count] > ma.values[ma.count - 19]

IsDecreasing(ma) == ma.count >= 20 /\ ma.values[ma.count] < ma.values[ma.count - 19]

\* What calculate_technical_score returns: the score and, of the dictionary
\* that goes with it, T_conv_adj, technical_score_raw and convergence.
TechnicalResult(technical_score_raw, convergence, t_conv_adj) ==
    [raised |-> FALSE, score |-> Clip(technical_score_raw + t_conv_adj),
     t_conv_adj |-> t_conv_adj,
     technical_score_raw |-> technical_score_raw,
     convergence |-> convergence]

\* The adjustment of a series: detect_ma200_convergence(closes) and
\* _calc_convergence_adjustment of it.
Adjusted(technical_score_raw, convergence) ==
    TechnicalResult(technical_score_raw, convergence,
                    CalcConvergenceAdjustment(convergence, CONVERGENCE_ADJ_MAX))

\* calculate_technical_score(price_history, base_window): raises, or the score
\* and the debug values
CalculateTechnicalScore(price_history, base_window) ==
    LET closes   == ClosesOf(price_history)
        windows  == Windows(base_window)
        short_window == Smallest(windows)
        mid_window   == Smallest(windows \ {short_window})
        long_window  == Largest(windows)
        ma_short_series == MovingAverage(closes, short_window)
        ma_base  == LastMean(MovingAverage(closes, base_window))
        ma_short == LastMean(ma_short_series)
        ma_mid   == LastMean(MovingAverage(closes, mid_window))
        ma_long  == LastMean(MovingAverage(closes, long_window))
        current_price == Last(closes)
        d == Quot(current_price - ma_base, ma_base, 4)
        t_trend == IF ma_short > ma_mid /\ ma_mid > ma_long
                      /\ IsIncreasing(ma_short_series) THEN 1000
                   ELSE IF ma_short < ma_mid /\ ma_mid < ma_long
                      /\ IsDecreasing(ma_short_series) THEN -1000
                   ELSE 0
    IN  IF \E w \in windows : Len(closes) < w
        THEN [raised |-> TRUE, score |-> NoneNumber, t_conv_adj |-> NoneNumber,
              technical_score_raw |-> NoneNumber,
              convergence |-> [side |-> "neutral", score |-> 0, speed |-> "unknown",
                               danger |-> 0, deviation_200 |-> NoneNumber]]
        ELSE Adjusted(Clip(TBase(d) + t_trend), DetectMa200Convergence(closes))

\* calculate_total_score(technical, macro, event_adjustment, current_price,
\* ma500, ma1000)
CalculateTotalScore(technical, macro, event_adjustment, current_price, ma500, ma1000) ==
    LET raw_score == Round2(7 * technical + 3 * macro + 10 * event_adjustment) \div 10
        attenuation == IF current_price # NoneNumber
                       THEN CalculateUltraLongAttenuation(current_price, ma500, ma1000)
                       ELSE NoneNumber
    IN  Clip(IF attenuation # NoneNumber THEN (raw_score * attenuation) \div 10000
             ELSE raw_score)

\* ------------------------------------------------------------ run_backtest
\* _history_and_current(series, current): raises, or (history, current_val)
HistoryAndCurrent(series, current) ==
    LET usable == SelectSeq(series, LAMBDA p : p[1] <= current)
        values == [i \in 1..Len(usable) |-> usable[i][2]]
        padded == IF Len(values) = 1 THEN Append(values, values[1]) ELSE values
    IN  IF usable = <<>>
        THEN [raised |-> TRUE, history |-> <<>>, current |-> NoneNumber]
        ELSE [raised |-> FALSE, history |-> SubSeq(padded, 1, Len(padded) - 1),
              current |-> Last(padded)]

\* Where `current` stands among the values of `history`, 0 to 100: the share of
\* the values below it, a value equal to it counting for a half.
Percentile(history, current) ==
    LET below == Cardinality({i \in 1..Len(history) : history[i] < current})
        equal == Cardinality({i \in 1..Len(history) : history[i] = current})
    IN  IF history = <<>> THEN 5000
        ELSE (10000 * (2 * below + equal)) \div (2 * Len(history))

\* calculate_macro_score((r_hist, r_cur), (cpi_hist, cpi_cur), (vix_hist,
\* vix_cur)): a sub-score within 0..100
CalculateMacroScore(r, cpi, vix) ==
    Clip((Percentile(r.history, r.current) + Percentile(cpi.history, cpi.current)
          + Percentile(vix.history, vix.current)) \div 3)

\* EventService.get_events_for_date(target): the manual events (kept in date
\* order) dated target - 7 .. target + 30
GetEventsForDateAll(manual_events, target) == manual_events

GetEventsForDate(manual_events, target) ==
    SelectSeq(manual_events, LAMBDA e : target - 7 <= e.date /\ e.date <= target + 30)

RECURSIVE SumImportance(_)
SumImportance(events) ==
    IF events = <<>> THEN 0 ELSE Head(events).importance + SumImportance(Tail(events))

\* calculate_event_adjustment(current_date, events): an adjustment within
\* bounds, from the events handed to it
CalculateEventAdjustment(current_date, events) ==
    Max(-1000, Min(1000, 100 * SumImportance(events)))

\* sub_history = price_history[: idx + 1]
SubHistory(price_history, idx) == SubSeq(price_history, 1, idx + 1)

\* _calculate_scores(price_history, macro_series, current_date, score_ma), with
\* the events of self.event_service: raises, or the total score
CalculateScores(price_history, macro_series, current_date, score_ma, manual_events) ==
    LET technical == CalculateTechnicalScore(price_history, score_ma)
        r   == HistoryAndCurrent(macro_series.r_10y, current_date)
        cpi == HistoryAndCurrent(macro_series.cpi, current_date)
        vix == HistoryAndCurrent(macro_series.vix, current_date)
        events == GetEventsForDate(manual_events, current_date)
        mas == CalculateUltraLongMas(price_history)
        current_price == IF price_history # <<>> THEN Last(price_history)[2]
                         ELSE NoneNumber
    IN  IF technical.raised
        THEN [raised |-> TRUE, error |-> "Not enough data for MA", score |-> NoneNumber]
        ELSE IF r.raised \/ cpi.raised \/ vix.raised
        THEN [raised |-> TRUE, error |-> "No macro data available for requested date",
              score |-> NoneNumber]
        ELSE [raised |-> FALSE, error |-> None,
              score |-> CalculateTotalScore(
                            technical.score,
                            CalculateMacroScore(r, cpi, vix),
                            CalculateEventAdjustment(current_date, events),
                            current_price, mas.ma500, mas.ma1000)]

\* The loop with a peak that is never raised.
RECURSIVE DrawdownLoopFirstPeak(_, _, _, _)
DrawdownLoopFirstPeak(values, lo, hi, peak) ==
    IF lo = hi
    THEN LET dd == IF peak # 0 THEN Quot(peak - values[lo], peak, 5) ELSE 0
         IN  [peak |-> peak, max_dd |-> IF dd > 0 THEN dd ELSE 0]
    ELSE LET left  == DrawdownLoopFirstPeak(values, lo, (lo + hi) \div 2, peak)
             right == DrawdownLoopFirstPeak(values, (lo + hi) \div 2 + 1, hi, peak)
         IN  [peak |-> peak, max_dd |-> Max(left.max_dd, right.max_dd)]

\* The loop of _compute_max_drawdown over values[lo..hi], entered with `peak`:
\* the peak and the largest drawdown (0.0 at least) it leaves. The passes over
\* the two halves of the range follow each other.
RECURSIVE DrawdownLoop(_, _, _, _)
DrawdownLoop(values, lo, hi, peak) ==
    IF lo = hi
    THEN LET v  == values[lo]
             pk == IF v > peak THEN v ELSE peak
             dd == IF pk # 0 THEN Quot(pk - v, pk, 5) ELSE 0
         IN  [peak |-> pk, max_dd |-> IF dd > 0 THEN dd ELSE 0]
    ELSE LET left  == DrawdownLoop(values, lo, (lo + hi) \div 2, peak)
             right == DrawdownLoop(values, (lo + hi) \div 2 + 1, hi, left.peak)
         IN  IF left.peak >= left.max_dd \/ left.peak < left.max_dd
             THEN [peak |-> right.peak, max_dd |-> Max(left.max_dd, right.max_dd)]
             ELSE left

\* _compute_max_drawdown(values), in hundredths of a percent; values[0] of an
\* empty list raises
ComputeMaxDrawdown(values) ==
    IF values = <<>> THEN [raised |-> TRUE, value |-> NoneNumber]
    ELSE [raised |-> FALSE,
          value  |-> Round2(DrawdownLoop(values, 1, Len(values), values[1]).max_dd)
                     \div 10]

\* required_points = max(200, score_ma)
RequiredPoints200(score_ma) == 200

RequiredPoints(score_ma) == Max(200, score_ma)

\* The first index that is scored: max(score_ma - 1, 199)
WarmUp(score_ma) == Max(score_ma - 1, 199)

\* portfolio_value = cash + shares * close
PortfolioValueCash(cash, shares, close) == cash

PortfolioValue(cash, shares, close) == cash + shares * close

\* The sell and the buy of a scored day, tried one after the other.
TradeSellThenBuy(b, score, date_str, close) ==
    LET sold == b.shares > 0 /\ score >= b.sell_threshold
        cash == IF sold THEN b.cash + b.shares * close ELSE b.cash
        trades == IF sold
                  THEN Append(b.trades, [action |-> "SELL", date |-> date_str,
                                         quantity |-> b.shares, price |-> close])
                  ELSE b.trades
        shares == IF sold THEN 0 ELSE b.shares
        qty == cash \div close
    IN  IF shares = 0 /\ score < b.buy_threshold /\ qty > 0
        THEN [cash |-> cash - qty * close, shares |-> qty,
              trades |-> Append(trades, [action |-> "BUY", date |-> date_str,
                                         quantity |-> qty, price |-> close])]
        ELSE [cash |-> cash, shares |-> shares, trades |-> trades]

\* The buy recorded whatever the quantity.
TradeBuyAnyQuantity(b, score, date_str, close) ==
    LET qty == b.cash \div close
    IN  IF b.shares > 0 /\ score >= b.sell_threshold
        THEN [cash |-> b.cash + b.shares * close, shares |-> 0,
              trades |-> Append(b.trades, [action |-> "SELL", date |-> date_str,
                                           quantity |-> b.shares, price |-> close])]
        ELSE IF b.shares = 0 /\ score < b.buy_threshold
        THEN [cash |-> b.cash - qty * close, shares |-> b.shares + qty,
              trades |-> Append(b.trades, [action |-> "BUY", date |-> date_str,
                                           quantity |-> qty, price |-> close])]
        ELSE [cash |-> b.cash, shares |-> b.shares, trades |-> b.trades]

\* The buy made at any score below sell_threshold.
TradeBuyBelowSell(b, score, date_str, close) ==
    LET qty == b.cash \div close
    IN  IF b.shares > 0 /\ score >= b.sell_threshold
        THEN [cash |-> b.cash + b.shares * close, shares |-> 0,
              trades |-> Append(b.trades, [action |-> "SELL", date |-> date_str,
                                           quantity |-> b.shares, price |-> close])]
        ELSE IF b.shares = 0 /\ score < b.sell_threshold /\ qty > 0
        THEN [cash |-> b.cash - qty * close, shares |-> b.shares + qty,
              trades |-> Append(b.trades, [action |-> "BUY", date |-> date_str,
                                           quantity |-> qty, price |-> close])]
        ELSE [cash |-> b.cash, shares |-> b.shares, trades |-> b.trades]

\* The sell or the buy of a scored day.
Trade(b, score, date_str, close) ==
    LET qty == b.cash \div close
    IN  IF b.shares > 0 /\ score >= b.sell_threshold
        THEN [cash |-> b.cash + b.shares * close, shares |-> 0,
              trades |-> Append(b.trades, [action |-> "SELL", date |-> date_str,
                                           quantity |-> b.shares, price |-> close])]
        ELSE IF b.shares = 0 /\ score < b.buy_threshold /\ qty > 0
        THEN [cash |-> b.cash - qty * close, shares |-> b.shares + qty,
              trades |-> Append(b.trades, [action |-> "BUY", date |-> date_str,
                                           quantity |-> qty, price |-> close])]
        ELSE [cash |-> b.cash, shares |-> b.shares, trades |-> b.trades]

\* One pass of the loop over price_history, from the locals b: the pass for
\* the point of index b.idx.
Iteration(b) ==
    LET date_str == b.price_history[b.idx + 1][1]
        close    == b.price_history[b.idx + 1][2]
        scored   == b.idx >= WarmUp(b.score_ma)
        total    == CalculateScores(SubHistory(b.price_history, b.idx), b.macro_series,
                                    date_str, b.score_ma, b.manual_events)
        after    == IF scored THEN Trade(b, total.score, date_str, close)
                    ELSE [cash |-> b.cash, shares |-> b.shares, trades |-> b.trades]
    IN  IF scored /\ total.raised
        THEN [b EXCEPT !.pc = "raised", !.error = total.error]
        ELSE [b EXCEPT !.cash = after.cash,
                       !.shares = after.shares,
                       !.trades = after.trades,
                       !.score = IF scored THEN total.score ELSE b.score,
                       !.scored = IF scored THEN b.scored + 1 ELSE b.scored,
                       !.portfolio_history =
                           Append(@, [date |-> date_str,
                                      value |-> Round2(PortfolioValue(after.cash,
                                                           after.shares, close))]),
                       !.buy_hold_history =
                           Append(@, [date |-> date_str,
                                      value |-> Round2(b.hold_cash + b.hold_shares * close)]),
                       !.idx = b.idx + 1]

\* ----------------------------------------------- what a backtest is run on
\* 199 closes of `base` on consecutive business days, then the closes of tail.
Flat199(base, tail) ==
    [i \in 1..(199 + Len(tail)) |->
        <<BDay(i - 1), IF i <= 199 THEN base ELSE tail[i - 199]>>]

\* The first scored day of a run with score_ma <= 200 (index 199).
FirstScoredDay == BDay(199)

\* A flat year followed by a rise of 30% and a fall.
RisingThenFalling == Flat199(100000, <<100000, 115000, 130000, 130000, 111000, 95000>>)

\* The slow rise, whose scores stay between 30 and 80.
SlowRise == Flat199(100000, <<100000, 105000, 110000, 121000>>)

\* What get_price_history_range gives for the range: a flat year followed by
\* a rise of 30% and a fall; the same with fractions of a cent; a slow rise;
\* 250 flat days and a rise; and series too short to score.
BacktestHistories ==
    { RisingThenFalling,
      Flat199(100005, <<100005, 114996, 130007, 112343>>),
      SlowRise,
      Flat199(100000, <<>>),
      Flat199(100000, <<100000>>),
      [i \in 1..252 |-> <<BDay(i - 1), IF i <= 250 THEN 100000 ELSE 118000>>],
      [i \in 1..150 |-> <<BDay(i - 1), 100000>>],
      <<>> }

\* What get_macro_series_range gives: one observation per series; observations
\* before, among and after the scored days; observations after the range only.
MacroWorlds ==
    { [r_10y |-> <<<<1826, 150>>>>, cpi |-> <<<<1826, 250>>>>, vix |-> <<<<1826, 1500>>>>],
      [r_10y |-> <<<<1826, 150>>, <<2000, 200>>, <<FirstScoredDay + 1, 400>>,
                   <<FirstScoredDay + 5, 100>>>>,
       cpi   |-> <<<<1826, 250>>, <<2000, 300>>, <<FirstScoredDay + 4, 350>>>>,
       vix   |-> <<<<1826, 1500>>, <<2000, 1200>>, <<FirstScoredDay + 1, 3000>>>>],
      [r_10y |-> <<<<2300, 150>>>>, cpi |-> <<<<2300, 250>>>>, vix |-> <<<<2300, 1500>>>>] }

QuietMacro == CHOOSE w \in MacroWorlds : w.r_10y = <<<<1826, 150>>>>

\* EventService.manual_events: none; one event ten days after the first
\* scored day; one a few days before it and one far after it.
EventWorlds ==
    { <<>>,
      <<[name |-> "FOMC", importance |-> 5, date |-> FirstScoredDay + 10]>>,
      <<[name |-> "CPI (US)", importance |-> 4, date |-> FirstScoredDay - 5],
        [name |-> "FOMC", importance |-> 5, date |-> FirstScoredDay + 45]>> }

\* initial_cash: 50, 1000 and 10000.50
InitialCashes == {50000, 1000000, 10000500}

\* (buy_threshold, sell_threshold): the defaults 40 and 80, and 90 and 80
Thresholds == {<<4000, 8000>>, <<9000, 8000>>}

\* The runs: every series and amount with the defaults, one series with
\* every macro series, event calendar, pair of thresholds and score_ma, and
\* the slow rise with a buy_threshold of 30.
BacktestRuns ==
    { [price_history |-> h, initial_cash |-> c, thresholds |-> <<4000, 8000>>,
       macro |-> QuietMacro, manual_events |-> <<>>, score_ma |-> 200]
      : h \in BacktestHistories, c \in InitialCashes }
    \cup
    { [price_history |-> RisingThenFalling, initial_cash |-> 1000000, thresholds |-> t,
       macro |-> w, manual_events |-> e, score_ma |-> s]
      : t \in Thresholds, w \in MacroWorlds, e \in EventWorlds, s \in {200, 250} }
    \cup
    { [price_history |-> SlowRise, initial_cash |-> c, thresholds |-> <<3000, 8000>>,
       macro |-> QuietMacro, manual_events |-> <<>>, score_ma |-> 200]
      : c \in InitialCashes }

NoMacro == [r_10y |-> <<>>, cpi |-> <<>>, vix |-> <<>>]

\* run_backtest is called: its arguments and what its collaborators hold.
InitBacktest ==
    /\ Parked
    /\ fn = NoFn
    /\ push = NoPush
    /\ bt \in { [pc |-> "start",
                 initial_cash |-> r.initial_cash,
                 buy_threshold |-> r.thresholds[1],
                 sell_threshold |-> r.thresholds[2],
                 score_ma |-> r.score_ma,
                 market |-> r.price_history,
                 macro |-> r.macro,
                 manual_events |-> r.manual_events,
                 fetches |-> 0, macro_requests |-> 0,
                 price_history |-> <<>>, macro_series |-> NoMacro,
                 cash |-> 0, shares |-> 0, portfolio_history |-> <<>>, trades |-> <<>>,
                 hold_cash |-> 0, hold_shares |-> 0, buy_hold_history |-> <<>>,
                 idx |-> 0, score |-> NoneNumber, scored |-> 0,
                 error |-> None, result |-> None]
               : r \in BacktestRuns }

\* A tracker that keeps the whole amount in cash.
SeedBuyHoldAllCash(initial_cash, first_price) ==
    [hold_shares |-> 0, hold_cash |-> initial_cash]

\* The buy-and-hold tracker before the loop: the whole shares the amount buys
\* at the first close, and the cash left over.
SeedBuyHold(initial_cash, first_price) ==
    [hold_shares |-> initial_cash \div first_price,
     hold_cash |-> initial_cash - (initial_cash \div first_price) * first_price]

\* run_backtest up to its loop: the series is fetched once and counted, then
\* the macro series are requested and the locals set.
BeginBacktest ==
    /\ bt.pc = "start"
    /\ bt' = IF Len(bt.market) < RequiredPoints(bt.score_ma)
             THEN [bt EXCEPT !.pc = "raised", !.fetches = @ + 1,
                             !.price_history = bt.market,
                             !.error = "Not enough price history to run backtest"]
             ELSE [bt EXCEPT !.pc = "loop", !.fetches = @ + 1,
                             !.price_history = bt.market,
                             !.macro_requests = @ + 1,
                             !.macro_series = bt.macro,
                             !.cash = bt.initial_cash,
                             !.shares = 0,
                             !.hold_shares =
                                 SeedBuyHold(bt.initial_cash, bt.market[1][2]).hold_shares,
                             !.hold_cash =
                                 SeedBuyHold(bt.initial_cash, bt.market[1][2]).hold_cash]
    /\ UNCHANGED <<acquisition, fn, push>>

\* for idx, (date_str, close) in enumerate(price_history): one pass
StepBacktest ==
    /\ bt.pc = "loop"
    /\ bt.idx < Len(bt.price_history)
    /\ bt' = Iteration(bt)
    /\ UNCHANGED <<acquisition, fn, push>>

\* After the loop: the metrics and the return (cagr_pct, a real power of the
\* same amounts, is not carried).
FinishBacktest ==
    /\ bt.pc = "loop"
    /\ bt.idx = Len(bt.price_history)
    /\ LET final_price == Last(bt.price_history)[2]
           final_value == bt.cash + bt.shares * final_price
           buy_hold_final == bt.hold_cash + bt.hold_shares * final_price
       IN  bt' = [bt EXCEPT
                    !.pc = "done",
                    !.result =
                      [final_value |-> Round2(final_value),
                       buy_and_hold_final |-> Round2(buy_hold_final),
                       total_return_pct |->
                           IF bt.initial_cash # 0
                           THEN Round2(Quot(final_value - bt.initial_cash,
                                            bt.initial_cash, 5)) \div 10
                           ELSE 0,
                       max_drawdown_pct |->
                           ComputeMaxDrawdown([i \in 1..Len(bt.portfolio_history) |->
                                                 bt.portfolio_history[i].value]).value,
                       trade_count |-> Len(bt.trades),
                       trades |-> bt.trades,
                       portfolio_history |-> bt.portfolio_history,
                       buy_hold_history |-> bt.buy_hold_history]]
    /\ UNCHANGED <<acquisition, fn, push>>

NextBacktest == BeginBacktest \/ StepBacktest \/ FinishBacktest

SpecBacktest == InitBacktest /\ [][NextBacktest]_vars

\* --------------------------------------- _compute_max_drawdown on its own
\* The values of a history: -50, 0, 90, 95, 100 and 110.
DrawdownValues == {-50000, 0, 90000, 95000, 100000, 110000}

MaxHistoryLen == 3

RECURSIVE HistoriesOfLen(_)
HistoriesOfLen(n) ==
    IF n = 0 THEN {<<>>}
    ELSE { Append(h, v) : h \in HistoriesOfLen(n - 1), v \in DrawdownValues }

InitDrawdown ==
    /\ Parked
    /\ bt = NoBt
    /\ push = NoPush
    /\ fn \in { [op |-> "_compute_max_drawdown", values |-> h, done |-> FALSE,
                  result |-> NoneNumber]
                : h \in UNION { HistoriesOfLen(n) : n \in 1..MaxHistoryLen } }

\* max_dd = self._compute_max_drawdown(values)
ApplyComputeMaxDrawdown ==
    /\ fn.op = "_compute_max_drawdown"
    /\ ~fn.done
    /\ fn' = [fn EXCEPT !.done = TRUE, !.result = ComputeMaxDrawdown(fn.values).value]
    /\ UNCHANGED <<acquisition, bt, push>>

NextDrawdown == ApplyComputeMaxDrawdown

SpecDrawdown == InitDrawdown /\ [][NextDrawdown]_vars

\* ------------------------- moving_average and latest_moving_average alone
\* The longest list of prices and the largest window they are applied to.
MaxPrices == 4

MaxWindow == 5

\* The prices of a list: 100, 100.005 and 130.
AveragedPrices == {100000, 100005, 130000}

RECURSIVE PricesOfLen(_)
PricesOfLen(n) ==
    IF n = 0 THEN {<<>>}
    ELSE { Append(h, v) : h \in PricesOfLen(n - 1), v \in AveragedPrices }

InitMovingAverage ==
    /\ Parked
    /\ bt = NoBt
    /\ push = NoPush
    /\ fn \in { [op |-> "moving_average", prices |-> h, window |-> w,
                  done |-> FALSE, ma |-> [raised |-> FALSE, count |-> 0, values |-> <<>>],
                  latest_done |-> FALSE, latest |-> NoneNumber]
                : h \in UNION { PricesOfLen(n) : n \in 0..MaxPrices }, w \in 1..MaxWindow }

\* moving_average(prices, window)
ApplyMovingAverage ==
    /\ fn.op = "moving_average"
    /\ ~fn.done
    /\ fn' = [fn EXCEPT !.done = TRUE,
                         !.ma = LET r == MovingAverage(fn.prices, fn.window)
                                IN  [raised |-> r.raised, count |-> r.count,
                                     values |-> [j \in 1..r.count |-> r.values[j]]]]
    /\ UNCHANGED <<acquisition, bt, push>>

\* latest_moving_average(prices, window)
ApplyLatestMovingAverage ==
    /\ fn.op = "moving_average"
    /\ ~fn.latest_done
    /\ fn' = [fn EXCEPT !.latest_done = TRUE,
                         !.latest = LatestMovingAverage(fn.prices, fn.window)]
    /\ UNCHANGED <<acquisition, bt, push>>

NextMovingAverage == ApplyMovingAverage \/ ApplyLatestMovingAverage

SpecMovingAverage == InitMovingAverage /\ [][NextMovingAverage]_vars

\* ------------------------------------------ calculate_technical_score alone
\* k closes of v
Run(k, v) == [i \in 1..k |-> v]

\* The last closes of a history after 199 closes of 100: flat; one close 10%
\* up, 30% up, 8% down; nine closes at 120 and one at 110; nine at 88 and one
\* at 93; a peak that is left step by step, at two heights; and a trough that
\* is left step by step.
Tails ==
    { <<100000>>, <<110000>>, <<130000>>, <<92000>>,
      Run(9, 120000) \o <<110000>>,
      Run(9, 88000) \o <<93000>>,
      Run(30, 200000) \o Run(15, 170000) \o Run(9, 150000) \o <<140000>>,
      Run(30, 300000) \o Run(15, 270000) \o Run(9, 250000) \o <<240000>>,
      Run(30, 40000) \o Run(15, 50000) \o Run(9, 55000) \o <<60000>> }

TechnicalHistories ==
    { Flat199(100000, tail) : tail \in Tails } \union {RisingThenFalling, SlowRise}

BaseWindows == {20, 200, 250}

InitTechnical ==
    /\ Parked
    /\ bt = NoBt
    /\ push = NoPush
    /\ fn \in { [op |-> "calculate_technical_score", price_history |-> h,
                  base_window |-> w, pc |-> "start",
                  technical |-> CalculateTechnicalScore(<<>>, 200),
                  total |-> NoneNumber]
                : h \in TechnicalHistories, w \in BaseWindows }

\* calculate_technical_score(price_history, base_window)
ApplyCalculateTechnicalScore ==
    /\ fn.op = "calculate_technical_score"
    /\ fn.pc = "start"
    /\ fn' = [fn EXCEPT !.pc = "technical",
                         !.technical = CalculateTechnicalScore(fn.price_history,
                                                               fn.base_window)]
    /\ UNCHANGED <<acquisition, bt, push>>

\* calculate_total_score on the technical score, with the last close as the
\* current price
TotalOfTechnical ==
    /\ fn.op = "calculate_technical_score"
    /\ fn.pc = "technical"
    /\ ~fn.technical.raised
    /\ \E m \in {0, 9000, 10000}, e \in {-1000, 0, 1000},
          mas \in {<<NoneNumber, NoneNumber>>, <<110000, 120000>>} :
          fn' = [fn EXCEPT !.pc = "total",
                           !.total = CalculateTotalScore(
                                         fn.technical.score, m, e,
                                         Last(ClosesOf(fn.price_history)),
                                         mas[1], mas[2])]
    /\ UNCHANGED <<acquisition, bt, push>>

NextTechnical == ApplyCalculateTechnicalScore \/ TotalOfTechnical

SpecTechnical == InitTechnical /\ [][NextTechnical]_vars

\* ------------- calculate_total_score and calculate_ultra_long_attenuation
\* The technical scores, macro scores and event adjustments of a call, in
\* hundredths of a point.
TechnicalScores == {0, 5000, 9000, 10000}

MacroScores == {0, 9000, 10000}

EventAdjustments == {-1000, 0, 1000}

\* The current price (None when the caller passes none) and the two averages
\* (None when the history is shorter than the window).
CurrentPrices == {NoneNumber, 70000, 90000, 100000, 130000}

Ma500s == {NoneNumber, 100000, 110000}

Ma1000s == {NoneNumber, 100000, 120000}

InitTotalScore ==
    /\ Parked
    /\ bt = NoBt
    /\ push = NoPush
    /\ fn \in { [op |-> "calculate_total_score", technical |-> t, macro |-> m,
                  event_adjustment |-> e, current_price |-> p, ma500 |-> a,
                  ma1000 |-> b, done |-> FALSE, total |-> NoneNumber,
                  attenuation_done |-> FALSE, attenuation |-> NoneNumber]
                : t \in TechnicalScores, m \in MacroScores, e \in EventAdjustments,
                  p \in CurrentPrices, a \in Ma500s, b \in Ma1000s }

\* calculate_total_score(technical, macro, event_adjustment, current_price,
\* ma500, ma1000)
ApplyCalculateTotalScore ==
    /\ fn.op = "calculate_total_score"
    /\ ~fn.done
    /\ fn' = [fn EXCEPT !.done = TRUE,
                         !.total = CalculateTotalScore(fn.technical, fn.macro,
                                       fn.event_adjustment, fn.current_price,
                                       fn.ma500, fn.ma1000)]
    /\ UNCHANGED <<acquisition, bt, push>>

\* calculate_ultra_long_attenuation(price, ma500, ma1000), with a price
ApplyCalculateUltraLongAttenuation ==
    /\ fn.op = "calculate_total_score"
    /\ fn.current_price # NoneNumber
    /\ ~fn.attenuation_done
    /\ fn' = [fn EXCEPT !.attenuation_done = TRUE,
                         !.attenuation = CalculateUltraLongAttenuation(
                                             fn.current_price, fn.ma500, fn.ma1000)]
    /\ UNCHANGED <<acquisition, bt, push>>

NextTotalScore == ApplyCalculateTotalScore \/ ApplyCalculateUltraLongAttenuation

SpecTotalScore == InitTotalScore /\ [][NextTotalScore]_vars

\* ---------------------------------- the retry loop, one pass after another
\* The loop of _fetch_yfinance_history_with_retry and of
\* _get_validated_index_jpy_history with its locals: the pass number, the
\* last error, the delays slept and the warnings logged.

\* if attempt < len(backoffs): time.sleep(delay); then the next pass, or the
\* end of the loop
EndOfPass(l) ==
    IF l.attempt < Len(Backoffs)
    THEN [l EXCEPT !.slept = Append(@, Backoffs[l.attempt]), !.attempt = @ + 1]
    ELSE [l EXCEPT !.pc = "after_loop"]

\* A validation failure that ends the loop at once.
ValidationFailedAtOnce(l, reason) ==
    [l EXCEPT !.last_error = [msg |-> reason, attempt |-> l.attempt],
              !.logged = Append(@, "validation"),
              !.pc = "after_loop"]

\* The candidate failed validation: _log_validation_failure and
\* last_error = ValueError(reason)
ValidationFailed(l, reason) ==
    EndOfPass([l EXCEPT !.last_error = [msg |-> reason, attempt |-> l.attempt],
                        !.logged = Append(@, "validation")])

\* except Exception as exc: last_error = exc, and the warning
FetchRaised(l, exc) ==
    EndOfPass([l EXCEPT !.last_error = [msg |-> exc, attempt |-> l.attempt],
                        !.logged = Append(@, "exception")])

\* Whether the attempt ends in the except clause: the download raised, or
\* _fetch_index_history_jpy found no date common to index and fx.
Raises(index_type, a) ==
    \/ ~a.resp.ok
    \/ price_type_map[index_type] = "index_jpy" /\ a.history = <<>>

\* A series the loop accepted in an earlier call.
EarlierGood(index_type) ==
    (CHOOSE a \in Attempts(index_type) : a.reason = None).history

InitRetry ==
    /\ focus \in Indexes
    /\ nav_api_map = [SP500 |-> None]
    /\ allow_synth_map = [SP500 |-> TRUE, sp500_jpy |-> TRUE]
    /\ last_good_history \in { EmptyDict }
                             \union { (i :> RoundSeries(EarlierGood(i))) : i \in Indexes }
    /\ cache = EmptyDict
    /\ now = 0
    /\ pc = "idle"
    /\ hist = NoHist
    /\ result = NoResult
    /\ calls = 0
    /\ bt = NoBt
    /\ push = NoPush
    /\ fn = [op |-> "retry_loop", index_type |-> focus, attempt |-> 1,
             last_error |-> NoError, slept |-> <<>>, logged |-> <<>>,
             pc |-> "pass", value |-> <<>>, error |-> NoError]

\* A pass whose candidate passes validation: the table is updated and the
\* series returned.
PassAccepts ==
    /\ fn.op = "retry_loop"
    /\ fn.pc = "pass"
    /\ \E a \in Attempts(fn.index_type) :
          /\ a.reason = None
          /\ fn' = [fn EXCEPT !.pc = "returned", !.value = a.history]
          /\ last_good_history' = UpdateLastGoodHistory(fn.index_type, a.history)
    /\ UNCHANGED <<config, cache, now, pc, hist, result, calls, bt, push>>

\* A pass whose candidate fails validation.
PassValidationFails ==
    /\ fn.op = "retry_loop"
    /\ fn.pc = "pass"
    /\ \E a \in Attempts(fn.index_type) :
          /\ a.reason # None
          /\ ~Raises(fn.index_type, a)
          /\ fn' = ValidationFailed(fn, a.reason)
    /\ UNCHANGED <<acquisition, bt, push>>

\* A pass whose fetch raises.
PassFetchRaises ==
    /\ fn.op = "retry_loop"
    /\ fn.pc = "pass"
    /\ \E a \in Attempts(fn.index_type) :
          /\ Raises(fn.index_type, a)
          /\ fn' = FetchRaised(fn, a.reason)
    /\ UNCHANGED <<acquisition, bt, push>>

\* After the loop: the last-good series, or the last error raised.
AfterLoop ==
    /\ fn.op = "retry_loop"
    /\ fn.pc = "after_loop"
    /\ fn' = IF fn.index_type \in DOMAIN last_good_history
             THEN [fn EXCEPT !.pc = "returned",
                             !.value = last_good_history[fn.index_type]]
             ELSE [fn EXCEPT !.pc = "raised", !.error = fn.last_error]
    /\ UNCHANGED <<acquisition, bt, push>>

NextRetry == PassAccepts \/ PassValidationFails \/ PassFetchRaises \/ AfterLoop

SpecRetry == InitRetry /\ [][NextRetry]_vars

\* ------------------------------------------------------------ PushService
\* Thresholds and scores are in hundredths of a point, days are counted from
\* the day the service is constructed, and None as last_notified_on is
\* NoneNumber.

\* The calls of register and run_for_paid_users made on one service, and the
\* days they are spread over.
MaxPushCalls == 4

MaxDay == 1

PushIndexes == {"SP500", "TOPIX"}

\* The calls of register: the first install with a token and a threshold of
\* 80 or with another token and a threshold of 75, the second with one token
\* and one threshold; each for either index, paid or not.
RegisterRequests ==
    { <<"install-1", t[1], x, t[2], p>> :
        t \in {<<"ExponentPushToken[a]", 8000>>, <<"ExponentPushToken[b]", 7500>>},
        x \in PushIndexes, p \in BOOLEAN }
    \union
    { <<"install-2", "ExponentPushToken[c]", x, 8000, p>> :
        x \in PushIndexes, p \in BOOLEAN }

\* What evaluate_func gives as scores.total
EvaluatedScores == {7500, 9000}

\* next(r for r in rows if r.install_id == install_id and r.index_type ==
\* index_type): the position of the first such row, 0 for None
Matched(rows, install_id, index_type) ==
    LET found == { i \in 1..Len(rows) : /\ rows[i].install_id = install_id
                                        /\ rows[i].index_type = index_type }
    IN  IF found = {} THEN 0 ELSE Smallest(found)

\* {r.index_type for r in rows if r.install_id == install_id}
ExistingIndices(rows, install_id) ==
    { rows[i].index_type : i \in { j \in 1..Len(rows) : rows[j].install_id = install_id } }

\* register that appends a row whether or not one matches.
RegisterAppends(rows, install_id, expo_push_token, index_type, threshold, paid) ==
    LET existing_indices == ExistingIndices(rows, install_id)
    IN  IF ~paid /\ existing_indices # {} /\ index_type \notin existing_indices
        THEN [error |-> "upgrade_required", rows |-> rows]
        ELSE [error |-> None,
              rows  |-> Append(rows, [install_id |-> install_id,
                                      expo_push_token |-> expo_push_token,
                                      index_type |-> index_type,
                                      threshold |-> threshold, paid |-> paid,
                                      last_notified_on |-> NoneNumber])]

\* register that lets a free user add any index.
RegisterUnlimited(rows, install_id, expo_push_token, index_type, threshold, paid) ==
    LET matched == Matched(rows, install_id, index_type)
    IN  IF matched # 0
        THEN [error |-> None,
              rows  |-> [rows EXCEPT ![matched].expo_push_token = expo_push_token,
                                     ![matched].threshold = threshold,
                                     ![matched].paid = paid]]
        ELSE [error |-> None,
              rows  |-> Append(rows, [install_id |-> install_id,
                                      expo_push_token |-> expo_push_token,
                                      index_type |-> index_type,
                                      threshold |-> threshold, paid |-> paid,
                                      last_notified_on |-> NoneNumber])]

\* register(install_id, expo_push_token, index_type, threshold, paid) on the
\* rows read: the error raised (None when it returns) and the rows written
Register(rows, install_id, expo_push_token, index_type, threshold, paid) ==
    LET matched == Matched(rows, install_id, index_type)
        existing_indices == ExistingIndices(rows, install_id)
    IN  IF ~paid /\ existing_indices # {} /\ index_type \notin existing_indices
        THEN [error |-> "upgrade_required", rows |-> rows]
        ELSE IF matched # 0
        THEN [error |-> None,
              rows  |-> [rows EXCEPT ![matched].expo_push_token = expo_push_token,
                                     ![matched].threshold = threshold,
                                     ![matched].paid = paid]]
        ELSE [error |-> None,
              rows  |-> Append(rows, [install_id |-> install_id,
                                      expo_push_token |-> expo_push_token,
                                      index_type |-> index_type,
                                      threshold |-> threshold, paid |-> paid,
                                      last_notified_on |-> NoneNumber])]

\* list_paid()
ListPaid(rows) == SelectSeq(rows, LAMBDA r : r.paid)

\* A cooldown that never holds.
CanSendTodayAlways(reg, today) == TRUE

\* can_send_today(reg, today)
CanSendToday(reg, today) == reg.last_notified_on # today

\* mark_sent_today(reg, today): the rows written
MarkSentToday(rows, reg, today) ==
    LET found == { i \in 1..Len(rows) : /\ rows[i].install_id = reg.install_id
                                        /\ rows[i].index_type = reg.index_type
                                        /\ rows[i].threshold = reg.threshold }
    IN  IF found = {} THEN rows
        ELSE [rows EXCEPT ![Smallest(found)].last_notified_on = today]

\* A pass that marks the registration before the send is known to have
\* succeeded.
RunPassMarksBeforeSend(reg, acc, score, raises, today) ==
    IF ~CanSendToday(reg, today)
    THEN [rows    |-> acc.rows,
          results |-> Append(acc.results,
                         [install_id |-> reg.install_id, sent |-> FALSE,
                          reason |-> "cooldown", score |-> NoneNumber]),
          called  |-> Append(acc.called, [evaluate_func |-> FALSE,
                                          send_expo_push |-> FALSE])]
    ELSE IF score < reg.threshold
    THEN [rows    |-> acc.rows,
          results |-> Append(acc.results,
                         [install_id |-> reg.install_id, sent |-> FALSE,
                          reason |-> "below_threshold", score |-> score]),
          called  |-> Append(acc.called, [evaluate_func |-> TRUE,
                                          send_expo_push |-> FALSE])]
    ELSE IF raises
    THEN [rows    |-> MarkSentToday(acc.rows, reg, today),
          results |-> Append(acc.results,
                         [install_id |-> reg.install_id, sent |-> FALSE,
                          reason |-> "push_failed", score |-> score]),
          called  |-> Append(acc.called, [evaluate_func |-> TRUE,
                                          send_expo_push |-> TRUE])]
    ELSE [rows    |-> MarkSentToday(acc.rows, reg, today),
          results |-> Append(acc.results,
                         [install_id |-> reg.install_id, sent |-> TRUE,
                          reason |-> "sent", score |-> score]),
          called  |-> Append(acc.called, [evaluate_func |-> TRUE,
                                          send_expo_push |-> TRUE])]

\* One pass of the loop of run_for_paid_users, for the paid registration reg:
\* score is what evaluate_func gives for its index, raises whether
\* send_expo_push raises a RequestException; acc carries the stored rows, the
\* results, and for each registration whether evaluate_func and
\* send_expo_push were called.
RunPass(reg, acc, score, raises, today) ==
    IF ~CanSendToday(reg, today)
    THEN [rows    |-> acc.rows,
          results |-> Append(acc.results,
                         [install_id |-> reg.install_id, sent |-> FALSE,
                          reason |-> "cooldown", score |-> NoneNumber]),
          called  |-> Append(acc.called, [evaluate_func |-> FALSE,
                                          send_expo_push |-> FALSE])]
    ELSE IF score < reg.threshold
    THEN [rows    |-> acc.rows,
          results |-> Append(acc.results,
                         [install_id |-> reg.install_id, sent |-> FALSE,
                          reason |-> "below_threshold", score |-> score]),
          called  |-> Append(acc.called, [evaluate_func |-> TRUE,
                                          send_expo_push |-> FALSE])]
    ELSE IF raises
    THEN [rows    |-> acc.rows,
          results |-> Append(acc.results,
                         [install_id |-> reg.install_id, sent |-> FALSE,
                          reason |-> "push_failed", score |-> score]),
          called  |-> Append(acc.called, [evaluate_func |-> TRUE,
                                          send_expo_push |-> TRUE])]
    ELSE [rows    |-> MarkSentToday(acc.rows, reg, today),
          results |-> Append(acc.results,
                         [install_id |-> reg.install_id, sent |-> TRUE,
                          reason |-> "sent", score |-> score]),
          called  |-> Append(acc.called, [evaluate_func |-> TRUE,
                                          send_expo_push |-> TRUE])]

\* The loop of run_for_paid_users from the k-th paid registration on.
\* evaluate maps an index to the score evaluate_func gives, failing holds the
\* positions for which send_expo_push raises a RequestException.
RECURSIVE RunLoop(_, _, _, _, _, _)
RunLoop(regs, k, acc, evaluate, failing, today) ==
    IF k > Len(regs) THEN acc
    ELSE RunLoop(regs, k + 1,
                 RunPass(regs[k], acc, evaluate[regs[k].index_type], k \in failing, today),
                 evaluate, failing, today)

\* PushService(storage_path) on a new path: an empty store.
InitPush ==
    /\ Parked
    /\ fn = NoFn
    /\ bt = NoBt
    /\ push = [pc |-> "ready", rows |-> <<>>, today |-> 0, registers |-> 0,
               runs |-> 0, delivered |-> <<>>, last |-> [op |-> "none"]]

\* register(install_id, expo_push_token, index_type, threshold, paid)
RegisterCall ==
    /\ push.pc = "ready"
    /\ push.registers + push.runs < MaxPushCalls
    /\ \E q \in RegisterRequests :
          LET r == Register(push.rows, q[1], q[2], q[3], q[4], q[5])
          IN  push' = [push EXCEPT
                         !.rows = r.rows,
                         !.registers = @ + 1,
                         !.last = [op |-> "register", install_id |-> q[1],
                                   expo_push_token |-> q[2], index_type |-> q[3],
                                   threshold |-> q[4], paid |-> q[5],
                                   error |-> r.error]]
    /\ UNCHANGED <<acquisition, fn, bt>>

\* run_for_paid_users(evaluate_func, today); delivered gains the pushes Expo
\* accepted.
RunForPaidUsers ==
    /\ push.pc = "ready"
    /\ push.runs + push.registers < MaxPushCalls
    /\ LET regs == ListPaid(push.rows)
       IN  \E evaluate \in [PushIndexes -> EvaluatedScores],
              failing \in SUBSET (1..Len(regs)) :
              LET r == RunLoop(regs, 1,
                               [rows |-> push.rows, results |-> <<>>, called |-> <<>>],
                               evaluate, failing, push.today)
                  sent == SelectSeq([k \in 1..Len(regs) |->
                                        [install_id |-> regs[k].install_id,
                                         index_type |-> regs[k].index_type,
                                         day |-> push.today,
                                         sent |-> r.results[k].sent]],
                                    LAMBDA d : d.sent)
              IN  push' = [push EXCEPT
                             !.rows = r.rows,
                             !.runs = @ + 1,
                             !.delivered = @ \o sent,
                             !.last = [op |-> "run_for_paid_users",
                                       results |-> r.results, called |-> r.called]]
    /\ UNCHANGED <<acquisition, fn, bt>>

\* Midnight: date.today() moves on.
NextDay ==
    /\ push.pc = "ready"
    /\ push.today < MaxDay
    /\ push' = [push EXCEPT !.today = @ + 1]
    /\ UNCHANGED <<acquisition, fn, bt>>

NextPush == RegisterCall \/ RunForPaidUsers \/ NextDay

SpecPush == InitPush /\ [][NextPush]_vars

\* ---------------------------------------------------------------- claims
\* A call of `op` has just returned (or raised): `result` is what it gave.
Done(op) == pc = "returned" /\ result.op = op

\* The retry loop of the call ran and every pass of it failed.
AllFailed == result.attempts > 0 /\ result.failures = result.attempts

\* C1: get_history, called while the cache holds an entry for the key with
\* now - fetched_at < ttl, returns that entry's data, asks neither the NAV
\* source nor the provider, and leaves the cache and the last-good table as it
\* found them (so the next call within the TTL finds the same entry).
C1_CacheHitIsPure ==
    (/\ Done("get_history")
     /\ result.key \in DOMAIN result.before.cache
     /\ now - result.before.cache[result.key].fetched_at < 15)
    => /\ result.kind = "value"
       /\ result.value = result.before.cache[result.key].data
       /\ result.downloads = 0
       /\ result.sources = <<>>
       /\ cache = result.before.cache
       /\ last_good_history = result.before.last_good_history

\* A third call answered from an entry that is ten minutes old.
C1_Witness ==
    /\ Done("get_history")
    /\ result.source = "cache"
    /\ calls = 3
    /\ now - cache[result.key].fetched_at = 10

\* C2: get_price_history_range returns a provider series exactly when the
\* pass that fetched it is the k-th (k <= 3) and accepted it after k-1 failed
\* passes; the series returned is the one that pass fetched, whatever the
\* earlier passes saw.
C2_KthValidResponseReturned ==
    Done("get_price_history_range") =>
      /\ result.source = "primary" =>
            /\ result.kind = "value"
            /\ result.attempts \in 1..3
            /\ result.failures = result.attempts - 1
            /\ result.downloads = result.attempts
            /\ AttemptError(result.index_type, Response(result.resp)) = None
            /\ result.value = Candidate(result.index_type, Response(result.resp))
      /\ (/\ result.attempts > 0
          /\ AttemptError(result.index_type, Response(result.resp)) = None)
         => result.source = "primary"

\* The third pass returns a valid series after two failed passes.
C2_Witness ==
    /\ Done("get_price_history_range")
    /\ result.source = "primary"
    /\ result.attempts = 3
    /\ result.failures = 2

\* C3: when every pass of get_price_history_range fails and the index has a
\* last-good series, the call returns that series and leaves the table alone,
\* whatever allow_fallback is.
C3_LastGoodOnFailure ==
    (/\ Done("get_price_history_range")
     /\ AllFailed
     /\ result.index_type \in DOMAIN result.before.last_good_history)
    => /\ result.kind = "value"
       /\ result.source = "last_good"
       /\ result.value = result.before.last_good_history[result.index_type]
       /\ last_good_history = result.before.last_good_history

\* All three passes failed, fallback was not allowed, the last-good came back.
C3_Witness ==
    /\ Done("get_price_history_range")
    /\ AllFailed
    /\ ~result.fallback_allowed
    /\ result.source = "last_good"
    /\ result.value = last_good_history[result.index_type]

\* C4: a get_history call makes at most 3 downloads from the primary
\* provider, counted over the whole call, before it falls back or fails.
C4_AtMostThreeAttempts ==
    /\ pc \in {"history_loop", "history_exhausted"} => hist.downloads <= 3
    /\ Done("get_history") => result.downloads <= 3

\* The tables as the call in progress (or just returned) found them.
Entered ==
    IF pc = "returned" THEN result.before
    ELSE IF pc \in {"history_loop", "history_exhausted"} THEN hist.before
    ELSE Tables(cache, last_good_history)

\* C5: every last-good entry is a series _validate_history accepts; a call
\* removes no entry, and changes the table only by storing, for its index, the
\* provider or NAV series it has validated and returns - never when it
\* failed, returned the last-good series or returned a synthetic one.
C5_LastGoodOnlyValidated ==
    /\ \A i \in DOMAIN last_good_history :
         ValidateHistory(last_good_history[i], i) = None
    /\ \A i \in DOMAIN Entered.last_good_history : i \in DOMAIN last_good_history
    /\ last_good_history # Entered.last_good_history =>
         /\ pc = "returned"
         /\ result.kind = "value"
         /\ result.source \in {"primary", "nav"}
         /\ ValidateHistory(result.value, result.index_type) = None
         /\ last_good_history =
              (result.index_type :> result.value) @@ Entered.last_good_history

\* A newly validated series has replaced the entry of an earlier call.
C5_Witness ==
    /\ pc = "returned"
    /\ result.op \in {"get_price_history", "get_price_history_range"}
    /\ result.source = "primary"
    /\ result.index_type \in DOMAIN result.before.last_good_history
    /\ last_good_history[result.index_type]
         # result.before.last_good_history[result.index_type]

\* The series a provider or NAV reply gives and validation accepts.
ValidatedSeries(index_type) ==
    { a.history : a \in { x \in Attempts(index_type) : x.reason = None } }
    \cup { RoundSeries(n) : n \in { r \in NavResponses :
                                      NavAccepted(RoundSeries(r), index_type) } }

\* C6: a get_history call in which no fetched series passed validation leaves
\* a cache entry of the key that held a validated (provider or NAV) series
\* with the same data.
C6_FailedCallKeepsCache ==
    (/\ Done("get_history")
     /\ AllFailed
     /\ result.key \in DOMAIN result.before.cache
     /\ result.before.cache[result.key].data \in ValidatedSeries(result.index_type))
    => /\ result.key \in DOMAIN cache
       /\ cache[result.key].data = result.before.cache[result.key].data

\* C7: when get_history returns a provider or NAV series that passed
\* validation, the cache entry of the key and the last-good entry of the index
\* both hold that series.
C7_FreshSeriesInBothTables ==
    (/\ Done("get_history")
     /\ result.kind = "value"
     /\ result.source \in {"primary", "nav"})
    => /\ result.key \in DOMAIN cache
       /\ cache[result.key].data = result.value
       /\ cache[result.key].fetched_at = now
       /\ result.index_type \in DOMAIN last_good_history
       /\ last_good_history[result.index_type] = result.value

\* A validated series returned over an expired entry that held another one.
C7_Witness ==
    /\ Done("get_history")
    /\ result.source \in {"primary", "nav"}
    /\ result.key \in DOMAIN result.before.cache
    /\ result.before.cache[result.key].data # result.value
    /\ cache[result.key].data = result.value

\* The sources a call consulted, as a set, and how often it consulted one.
Consulted == { result.sources[i] : i \in 1..Len(result.sources) }

Times(src) == Cardinality({ i \in 1..Len(result.sources) : result.sources[i] = src })

\* The place of a source in the order the specification gives, and in the
\* order of get_price_history_range.
RankClaimed(src) ==
    CASE src = "primary" -> 1 [] src = "nav" -> 2 [] src = "last_good" -> 3
      [] src = "synthetic" -> 4

RankCode(src) ==
    CASE src = "nav" -> 1 [] src = "primary" -> 2 [] src = "last_good" -> 3
      [] src = "synthetic" -> 4

C9_RaisesLastErrorWithoutFallback ==
    Done("get_price_history_range") =>
      /\ (/\ ~result.fallback_allowed
          /\ AllFailed
          /\ result.index_type \notin DOMAIN result.before.last_good_history)
         => /\ result.kind = "raise"
            /\ result.source # "synthetic"
            /\ result.error = [msg |-> AttemptError(result.index_type,
                                                    Response(result.resp)),
                               attempt |-> result.attempts]
      /\ result.source = "synthetic"
         => /\ result.fallback_allowed
            /\ AllFailed
            /\ result.index_type \notin DOMAIN result.before.last_good_history

\* The call raised the validation error of its third pass although the index
\* allows the synthetic series: allow_fallback was False.
C9_Witness ==
    /\ Done("get_price_history_range")
    /\ result.kind = "raise"
    /\ result.error = [msg |-> "abnormal_daily_jump", attempt |-> 3]
    /\ AllowSyntheticForIndex(result.index_type)
    /\ ~result.fallback_allowed

\* C10: get_history raises PriceHistoryFetchError only when every pass of the
\* provider failed (the NAV series, if asked for, refused before), the index
\* has no last-good entry, the synthetic series is not allowed or is empty, and
\* the key has no cache entry; otherwise it returns a series that is not empty.
C10_RaisesOnlyWhenAllFailed ==
    Done("get_history") =>
      /\ result.kind \in {"value", "raise"}
      /\ result.kind = "value" => Len(result.value) > 0
      /\ result.kind = "raise" =>
           /\ result.error.msg = "PriceHistoryFetchError"
           /\ AllFailed
           /\ \/ "nav" \in Consulted
              \/ price_type_map[result.index_type] = "index_jpy"
              \/ ResolveNavBase(result.index_type) = None
           /\ result.source # "nav"
           /\ result.index_type \notin DOMAIN last_good_history
           /\ \/ ~result.fallback_allowed
              \/ FallbackHistory(result.key[2], result.key[3], result.index_type) = <<>>
           /\ result.key \notin DOMAIN cache

\* get_history raised although the synthetic series was allowed: the range
\* holds no business day, so the series was empty.
C10_Witness ==
    /\ Done("get_history")
    /\ result.kind = "raise"
    /\ result.fallback_allowed
    /\ result.downloads = 9

\* _validate_history has been applied: fn holds the series and the reason.
Validated == fn.op = "_validate_history" /\ fn.done

\* Every close of the series is a number above zero.
AllPrices(history) ==
    \A i \in 1..Len(history) :
       history[i][2] \notin {NullClose, NaNClose} /\ history[i][2] > 0

\* The series has a change of more than 20% from one point to the next
\* (of a series whose closes are all prices).
HasJump(history) ==
    \E i \in 2..Len(history) :
       5 * Abs(history[i][2] - history[i - 1][2]) > history[i - 1][2]

\* The series has the points its span asks for.
EnoughPoints(history, index_type) ==
    /\ Len(history) >= 30
    /\ history[Len(history)][1] - history[1][1] >= 1095
         => Len(history) >= (IF index_type \in DOMAIN min_points_map
                             THEN min_points_map[index_type] ELSE 300)

\* C11: for a series of at least 30 positive closes that passes the
\* point-count checks, _validate_history gives the reason abnormal_daily_jump
\* exactly when two consecutive closes differ by more than 20% of the earlier
\* one; a change of exactly 20% does not make it give that reason.
C11_JumpRejected ==
    (/\ Validated
     /\ Len(fn.history) >= 30
     /\ EnoughPoints(fn.history, fn.index_type)
     /\ AllPrices(fn.history))
    => (fn.reason = "abnormal_daily_jump" <=> HasJump(fn.history))

\* A series with a change of exactly 20% and none above it is accepted.
C11_Witness ==
    /\ Validated
    /\ fn.reason = None
    /\ \E i \in 2..Len(fn.history) :
         5 * Abs(fn.history[i][2] - fn.history[i - 1][2]) = fn.history[i - 1][2]

C13_SeriesOrderedPositive ==
    (/\ pc = "returned"
     /\ result.op \in {"get_price_history_range", "get_history"}
     /\ result.kind = "value")
    => /\ \A i \in 1..Len(result.value) : result.value[i][2] > 0
       /\ \A i \in 2..Len(result.value) : result.value[i - 1][1] < result.value[i][1]

Passing == bt.pc = "loop" /\ bt.idx < Len(bt.price_history)

\* The date and the close of the point the pass is for.
PassDate == bt.price_history[bt.idx + 1][1]

PassClose == bt.price_history[bt.idx + 1][2]

\* The pass is one that computes a score.
ScoredPass == Passing /\ bt.idx >= Max(bt.score_ma - 1, 199) /\ bt'.pc = "loop"

\* C15: once run_backtest has got fewer than max(200, score_ma) price points it
\* has raised the not-enough-history error and done nothing else: no score, no
\* trade, no portfolio value, no request for macro series, one fetch of the
\* prices only, and nothing put in the place of the short series.
C15_ShortHistoryIsFatal ==
    (bt.pc \notin {"none", "start"} /\ Len(bt.market) < Max(200, bt.score_ma)) =>
        /\ bt.pc = "raised"
        /\ bt.error = "Not enough price history to run backtest"
        /\ bt.scored = 0
        /\ bt.score = NoneNumber
        /\ bt.idx = 0
        /\ bt.trades = <<>>
        /\ bt.portfolio_history = <<>>
        /\ bt.macro_requests = 0
        /\ bt.macro_series = NoMacro
        /\ bt.fetches = 1
        /\ bt.price_history = bt.market

\* A run with score_ma = 250 on 205 points has raised.
C15_Witness ==
    /\ bt.pc = "raised"
    /\ bt.score_ma = 250
    /\ Len(bt.market) = 205
    /\ bt.error = "Not enough price history to run backtest"

\* The run with something dated after `day` changed: the closes of the later
\* points, the values of the later macro observations, both.
LaterCloses(b) ==
    [b EXCEPT !.price_history =
        [i \in 1..Len(b.price_history) |->
            IF i > b.idx + 1
            THEN <<b.price_history[i][1], b.price_history[i][2] + 7000>>
            ELSE b.price_history[i]]]

LaterValues(series, day) ==
    [i \in 1..Len(series) |->
        IF series[i][1] > day THEN <<series[i][1], series[i][2] + 5000>> ELSE series[i]]

LaterMacro(b, day) ==
    [b EXCEPT !.macro_series = [r_10y |-> LaterValues(b.macro_series.r_10y, day),
                                cpi   |-> LaterValues(b.macro_series.cpi, day),
                                vix   |-> LaterValues(b.macro_series.vix, day)]]

\* The run with the events dated outside first..last taken off the calendar.
EventsWithin(b, first, last) ==
    [b EXCEPT !.manual_events =
        SelectSeq(b.manual_events, LAMBDA e : first <= e.date /\ e.date <= last)]

\* What a pass leaves of the run: where it stands, the money, the trades, the
\* portfolio values, the score.
LocalsOf(b) ==
    <<b.pc, b.idx, b.cash, b.shares, b.trades, b.portfolio_history, b.score, b.error>>

\* C16, as stated: a pass of the loop for day i leaves the same score, trades
\* and portfolio values when the closes after i, the macro observations dated
\* after day i or the events dated after day i are changed.
C16_NoLookahead ==
    [][Passing =>
         \A alt \in { LaterCloses(bt), LaterMacro(bt, PassDate),
                       EventsWithin(LaterCloses(LaterMacro(bt, PassDate)),
                                    0, PassDate) } :
            LocalsOf(Iteration(alt)) = LocalsOf(bt')]_vars

\* C16, amended: a pass of the loop for day i leaves the same score, trades
\* and portfolio values when the closes after i, the macro observations dated
\* after day i or the events dated outside day i - 7 .. day i + 30 are changed.
C16_NoLookaheadBeyondEventWindow ==
    [][Passing =>
         \A alt \in { LaterCloses(bt), LaterMacro(bt, PassDate),
                       EventsWithin(LaterCloses(LaterMacro(bt, PassDate)),
                                    PassDate - 7, PassDate + 30) } :
            LocalsOf(Iteration(alt)) = LocalsOf(bt')]_vars

\* A day has been scored in a run that has later closes, later macro
\* observations, an event after the day within 30 days and one beyond them.
C16_Witness ==
    /\ bt.pc = "loop"
    /\ bt.scored = 1
    /\ bt.idx < Len(bt.price_history)
    /\ \E i \in 1..Len(bt.macro_series.r_10y) :
          bt.macro_series.r_10y[i][1] > bt.price_history[bt.idx][1]
    /\ \E i \in 1..Len(bt.manual_events) :
          bt.manual_events[i].date > bt.price_history[bt.idx][1] + 30

\* C17: a scored pass entered with shares > 0 whose score is at least
\* sell_threshold leaves shares = 0, cash raised by the shares times the day's
\* close, and the trades with one more entry: a SELL of the shares held, at
\* the day's date and close (and so no BUY).
C17_SellLiquidates ==
    [][(ScoredPass /\ bt.shares > 0 /\ bt'.score >= bt.sell_threshold) =>
          /\ bt'.shares = 0
          /\ bt'.cash = bt.cash + bt.shares * PassClose
          /\ bt'.trades = Append(bt.trades,
                                 [action |-> "SELL", date |-> PassDate,
                                  quantity |-> bt.shares, price |-> PassClose])]_vars

\* The last pass sold the position, at a score below buy_threshold as well.
C17_Witness ==
    /\ bt.pc = "loop"
    /\ bt.idx > 0
    /\ bt.shares = 0
    /\ bt.trades # <<>>
    /\ bt.trades[Len(bt.trades)].action = "SELL"
    /\ bt.trades[Len(bt.trades)].date = bt.price_history[bt.idx][1]
    /\ bt.score >= bt.sell_threshold
    /\ bt.score < bt.buy_threshold

\* C18, as stated: a scored pass entered with shares = 0 whose score is below
\* buy_threshold buys qty = floor(cash / close) shares, takes qty x close off
\* the cash and appends a BUY trade of qty at the day's date and close.
C18_BuyRecorded ==
    [][(ScoredPass /\ bt.shares = 0 /\ bt'.score < bt.buy_threshold) =>
          /\ bt'.shares = bt.cash \div PassClose
          /\ bt'.cash = bt.cash - (bt.cash \div PassClose) * PassClose
          /\ bt'.trades = Append(bt.trades,
                                 [action |-> "BUY", date |-> PassDate,
                                  quantity |-> bt.cash \div PassClose,
                                  price |-> PassClose])]_vars

\* C18, amended: the same when qty = floor(cash / close) > 0; when qty = 0 the
\* pass leaves cash, shares and trades as they were.
C18_BuyRecordedWhenAffordable ==
    [][(ScoredPass /\ bt.shares = 0 /\ bt'.score < bt.buy_threshold) =>
          IF bt.cash \div PassClose > 0
          THEN /\ bt'.shares = bt.cash \div PassClose
               /\ bt'.cash = bt.cash - (bt.cash \div PassClose) * PassClose
               /\ bt'.trades = Append(bt.trades,
                                      [action |-> "BUY", date |-> PassDate,
                                       quantity |-> bt.cash \div PassClose,
                                       price |-> PassClose])
          ELSE /\ bt'.shares = 0
               /\ bt'.cash = bt.cash
               /\ bt'.trades = bt.trades]_vars

\* The last pass bought nine shares and left cash over.
C18_Witness ==
    /\ bt.pc = "loop"
    /\ bt.idx > 0
    /\ bt.shares = 9
    /\ bt.cash > 0
    /\ bt.trades[Len(bt.trades)].action = "BUY"
    /\ bt.trades[Len(bt.trades)].quantity = 9
    /\ bt.trades[Len(bt.trades)].date = bt.price_history[bt.idx][1]

\* C19: the run has one portfolio value per day gone through, the value of
\* the last day is cash + shares x that day's close rounded to 2 decimals,
\* and shares is a natural number.
C19_Conservation ==
    bt.pc \in {"loop", "raised", "done"} =>
        /\ bt.shares \in Nat
        /\ Len(bt.portfolio_history) = bt.idx
        /\ bt.idx > 0 =>
             /\ bt.portfolio_history[bt.idx].date = bt.price_history[bt.idx][1]
             /\ bt.portfolio_history[bt.idx].value =
                    Round2(bt.cash + bt.shares * bt.price_history[bt.idx][2])

\* Shares are held on a day whose value needed the rounding.
C19_Witness ==
    /\ bt.pc = "loop"
    /\ bt.idx > 0
    /\ bt.shares > 0
    /\ bt.portfolio_history[bt.idx].value
         # bt.cash + bt.shares * bt.price_history[bt.idx][2]

\* The largest of values[1..i]
RunningPeak(values, i) == Largest({ values[j] : j \in 1..i })

\* (running peak - value) / running peak at point i, 0 for a peak of 0
DrawdownAt(values, i) ==
    IF RunningPeak(values, i) = 0 THEN 0
    ELSE Quot(RunningPeak(values, i) - values[i], RunningPeak(values, i), 5)

NonDecreasing(values) == \A i \in 2..Len(values) : values[i - 1] <= values[i]

\* C20: _compute_max_drawdown gives, in percent to 2 decimals, the largest
\* (running peak - value) / running peak of the history; it is never
\* negative, 0 for a history that never falls, and 10 for [100, 90, 95].
C20_MaxDrawdown ==
    (fn.op = "_compute_max_drawdown" /\ fn.done) =>
        /\ fn.result >= 0
        /\ fn.result = Round2(Largest({ DrawdownAt(fn.values, i)
                                         : i \in 1..Len(fn.values) })) \div 10
        /\ NonDecreasing(fn.values) => fn.result = 0
        /\ fn.values = <<100000, 90000, 95000>> => fn.result = 1000

\* [100, 90, 95] has given 10.
C20_Witness ==
    /\ fn.op = "_compute_max_drawdown"
    /\ fn.done
    /\ fn.values = <<100000, 90000, 95000>>
    /\ fn.result = 1000

\* The score of the day of index k of the run.
ScoreOfDay(k) ==
    CalculateScores(SubHistory(bt.price_history, k), bt.macro_series,
                    bt.price_history[k + 1][1], bt.score_ma, bt.manual_events).score

\* Every day scored so far had buy_threshold <= score < sell_threshold.
HeldSoFar ==
    \A k \in Max(bt.score_ma - 1, 199)..(bt.idx - 1) :
        bt.buy_threshold <= ScoreOfDay(k) /\ ScoreOfDay(k) < bt.sell_threshold

\* C21: as long as every scored day of a run had buy_threshold <= score <
\* sell_threshold, the run has no trade and no shares, every portfolio value
\* is initial_cash, and the run ends with trade_count 0 and final_value
\* initial_cash.
C21_HoldBandNeverTrades ==
    (bt.pc \in {"loop", "done"} /\ HeldSoFar) =>
        /\ bt.trades = <<>>
        /\ bt.shares = 0
        /\ bt.cash = bt.initial_cash
        /\ \A i \in 1..Len(bt.portfolio_history) :
              bt.portfolio_history[i].value = bt.initial_cash
        /\ bt.pc = "done" =>
              /\ bt.result.trade_count = 0
              /\ bt.result.final_value = bt.initial_cash

\* A run that could afford shares ended after four scored days in the band.
C21_Witness ==
    /\ bt.pc = "done"
    /\ bt.scored = 4
    /\ bt.buy_threshold = 3000
    /\ bt.initial_cash = 1000000
    /\ bt.score >= bt.buy_threshold
    /\ bt.score < bt.sell_threshold
    /\ bt.result.trade_count = 0
    /\ bt.result.final_value = bt.initial_cash

\* prices[from] + ... + prices[to], added up one after the other
RECURSIVE AddedUp(_, _, _)
AddedUp(prices, from, to) ==
    IF from > to THEN 0 ELSE prices[from] + AddedUp(prices, from + 1, to)

\* C22: moving_average raises when there are fewer prices than the window,
\* and otherwise gives len(prices) - window + 1 values, the j-th the mean of
\* prices[j .. j + window - 1]; latest_moving_average gives None when there
\* are fewer prices than the window and otherwise the last of those values.
C22_MovingAverage ==
    (fn.op = "moving_average" /\ fn.done /\ fn.latest_done) =>
        IF Len(fn.prices) < fn.window
        THEN fn.ma.raised /\ fn.latest = NoneNumber
        ELSE /\ ~fn.ma.raised
             /\ Len(fn.ma.values) = Len(fn.prices) - fn.window + 1
             /\ \A j \in 1..Len(fn.ma.values) :
                   fn.ma.values[j]
                     = AddedUp(fn.prices, j, j + fn.window - 1) \div fn.window
             /\ fn.latest # NoneNumber
             /\ fn.latest = fn.ma.values[Len(fn.ma.values)]

\* Four prices and a window of 3 have given two means, the last one the
\* latest; and two prices with the same window have raised.
C22_Witness ==
    /\ fn.op = "moving_average"
    /\ fn.done
    /\ fn.latest_done
    /\ fn.prices = <<100000, 100005, 130000, 130000>>
    /\ fn.window = 3
    /\ fn.ma.values = <<110001, 120001>>
    /\ fn.latest = 120001

\* 0.7 * technical + 0.3 * macro + eventAdjustment, in hundredths of a point
Blend(technical, macro, event_adjustment) ==
    (7 * technical + 3 * macro + 10 * event_adjustment) \div 10

\* max(0, (MA - price) / MA), in ten-thousandths
BelowRatioClaimed(price, ma) == Max(0, ((ma - price) * 10000) \div ma)

\* max(0.6, 1 - 1.5 * max(belowRatio500, belowRatio1000)), in ten-thousandths
AttenuationClaimed(price, ma500, ma1000) ==
    Max(6000, 10000 - (15 * Max(BelowRatioClaimed(price, ma500),
                                BelowRatioClaimed(price, ma1000))) \div 10)

\* Whether the call has a price and both averages.
Attenuated ==
    /\ fn.current_price # NoneNumber
    /\ fn.ma500 # NoneNumber
    /\ fn.ma1000 # NoneNumber

\* C23: calculate_total_score gives clip(clip(0.7 * technical + 0.3 * macro
\* + eventAdjustment) * attenuation) for all inputs, those whose blend exceeds
\* 100 included: the blend is clipped before the attenuation is applied.
C23_ClipBeforeAttenuation ==
    (fn.op = "calculate_total_score" /\ fn.done /\ Attenuated) =>
        fn.total
          = Clip((Clip(Blend(fn.technical, fn.macro, fn.event_adjustment))
                    * AttenuationClaimed(fn.current_price, fn.ma500, fn.ma1000))
                 \div 10000)

\* C24: the attenuation is max(0.6, 1 - 1.5 * max(belowRatio500,
\* belowRatio1000)) with belowRatio = max(0, (MA - price) / MA), so it lies in
\* [0.6, 1] and is 1 when the price is at or above both averages; when either
\* average is unavailable there is none and the score is the raw score; a
\* price 30% below both averages with a raw score of 90 gives 54.
C24_Attenuation ==
    /\ (fn.op = "calculate_total_score" /\ fn.attenuation_done) =>
          IF fn.ma500 = NoneNumber \/ fn.ma1000 = NoneNumber
          THEN fn.attenuation = NoneNumber
          ELSE /\ fn.attenuation
                    = AttenuationClaimed(fn.current_price, fn.ma500, fn.ma1000)
               /\ fn.attenuation >= 6000
               /\ fn.attenuation <= 10000
               /\ (fn.current_price >= fn.ma500 /\ fn.current_price >= fn.ma1000)
                     => fn.attenuation = 10000
    /\ (fn.op = "calculate_total_score" /\ fn.done) =>
          /\ (fn.ma500 = NoneNumber \/ fn.ma1000 = NoneNumber) =>
                fn.total = Clip(Blend(fn.technical, fn.macro, fn.event_adjustment))
          /\ ( /\ Blend(fn.technical, fn.macro, fn.event_adjustment) = 9000
               /\ Attenuated
               /\ 10 * fn.current_price = 7 * fn.ma500
               /\ 10 * fn.current_price = 7 * fn.ma1000 ) => fn.total = 5400

\* A raw score of 90 with the price 30% below both averages has given 54,
\* with an attenuation of 0.6.
C24_Witness ==
    /\ fn.op = "calculate_total_score"
    /\ fn.done
    /\ fn.attenuation_done
    /\ fn.technical = 9000
    /\ fn.macro = 9000
    /\ fn.event_adjustment = 0
    /\ fn.current_price = 70000
    /\ fn.ma500 = 100000
    /\ fn.ma1000 = 100000
    /\ fn.attenuation = 6000
    /\ fn.total = 5400

\* C25: the convergence adjustment is 0 whenever the deviation of the price
\* from its 200-day average is below 15% in magnitude.
C25_NoAdjustmentBelow15 ==
    ( /\ fn.op = "calculate_technical_score"
      /\ fn.pc # "start"
      /\ ~fn.technical.raised
      /\ Abs(fn.technical.convergence.deviation_200) < 1500 ) =>
        fn.technical.t_conv_adj = 0

\* C26: for every accepted series the convergence adjustment lies in
\* [-8, +8], is not negative when the price is above its 200-day average and
\* not positive when it is below, the raw score and the final technical score
\* lie in [0, 100], and so does the total of calculate_total_score.
C26_ScoresBounded ==
    ( /\ fn.op = "calculate_technical_score"
      /\ fn.pc # "start"
      /\ ~fn.technical.raised ) =>
        /\ fn.technical.t_conv_adj >= -800
        /\ fn.technical.t_conv_adj <= 800
        /\ fn.technical.convergence.deviation_200 > 0 => fn.technical.t_conv_adj >= 0
        /\ fn.technical.convergence.deviation_200 < 0 => fn.technical.t_conv_adj <= 0
        /\ fn.technical.technical_score_raw >= 0
        /\ fn.technical.technical_score_raw <= 10000
        /\ fn.technical.score >= 0
        /\ fn.technical.score <= 10000
        /\ fn.technical.score
             = Clip(fn.technical.technical_score_raw + fn.technical.t_conv_adj)
        /\ fn.pc = "total" => fn.total >= 0 /\ fn.total <= 10000

\* A series whose price is below its 200-day average has got the full
\* adjustment of -8 and a total within the range.
C26_Witness ==
    /\ fn.op = "calculate_technical_score"
    /\ fn.pc = "total"
    /\ fn.technical.convergence.deviation_200 < 0
    /\ fn.technical.t_conv_adj = -800
    /\ fn.technical.score = 0
    /\ fn.total > 0

\* Whether the store holds a registration of the install for the index.
Holds(rows, install_id, index_type) == Matched(rows, install_id, index_type) # 0

\* The step is a call of register; push'.last holds its arguments.
RegisterStep == push.pc = "ready" /\ push'.registers = push.registers + 1

\* The step is a call of run_for_paid_users.
RunStep == push.pc = "ready" /\ push'.runs = push.runs + 1

\* C27: register with paid=False for an install that has a registration for
\* another index and none for the requested one raises upgrade_required and
\* leaves the store as it was; with paid=True the call succeeds and the
\* install then holds registrations for both indices.
C27_FreeUserSingleIndex ==
    [][ RegisterStep =>
          LET c == push'.last
              existing == ExistingIndices(push.rows, c.install_id)
          IN  (existing # {} /\ c.index_type \notin existing) =>
                IF ~c.paid
                THEN /\ c.error = "upgrade_required"
                     /\ push'.rows = push.rows
                ELSE /\ c.error = None
                     /\ ExistingIndices(push'.rows, c.install_id) = PushIndexes
                     /\ \A x \in PushIndexes : Holds(push'.rows, c.install_id, x)
      ]_vars

\* A free install with one registration has asked for the other index and
\* been refused.
C27_Witness ==
    /\ push.pc = "ready"
    /\ push.registers = 2
    /\ push.last.op = "register"
    /\ push.last.error = "upgrade_required"
    /\ ~push.last.paid
    /\ Len(push.rows) = 1
    /\ push.rows[1].install_id = push.last.install_id
    /\ push.rows[1].index_type # push.last.index_type

\* The position among the paid registrations of the one of the install for
\* the index, 0 when it is not among them.
PaidPosition(rows, install_id, index_type) ==
    Matched(ListPaid(rows), install_id, index_type)

\* No registration was pushed to twice on one day.
OncePerDay(delivered) ==
    \A m, n \in 1..Len(delivered) : delivered[m] = delivered[n] => m = n

\* C28: once a run on day D has sent for a registration, every later run on
\* day D reports sent=False with reason cooldown for it and neither evaluates
\* nor sends.
C28_CooldownReported ==
    [][ RunStep =>
          \A n \in 1..Len(push.delivered) :
              push.delivered[n].day = push.today =>
                  LET k == PaidPosition(push.rows, push.delivered[n].install_id,
                                        push.delivered[n].index_type)
                  IN  IF k = 0 THEN FALSE
                      ELSE /\ ~push'.last.results[k].sent
                           /\ push'.last.results[k].reason = "cooldown"
                           /\ ~push'.last.called[k].evaluate_func
                           /\ ~push'.last.called[k].send_expo_push
      ]_vars

\* C28, amended: no registration is pushed to twice on one day; once a run on
\* day D has sent for a registration, every later run on day D that finds it
\* among the paid registrations reports sent=False with reason cooldown for
\* it and neither evaluates nor sends, and a run that does not find it there
\* (it was registered again with paid=False) reports nothing for it.
C28_CooldownWhilePaid ==
    [][ RunStep =>
          /\ OncePerDay(push'.delivered)
          /\ Len(push'.last.results) = Len(ListPaid(push.rows))
          /\ \A n \in 1..Len(push.delivered) :
                push.delivered[n].day = push.today =>
                    LET k == PaidPosition(push.rows, push.delivered[n].install_id,
                                          push.delivered[n].index_type)
                    IN  k # 0 =>
                           /\ ~push'.last.results[k].sent
                           /\ push'.last.results[k].reason = "cooldown"
                           /\ ~push'.last.called[k].evaluate_func
                           /\ ~push'.last.called[k].send_expo_push
      ]_vars

\* The second run of a day has reported cooldown for the registration the
\* first one sent for.
C28_Witness ==
    /\ push.pc = "ready"
    /\ push.runs = 2
    /\ push.today = 0
    /\ Len(push.delivered) = 1
    /\ push.last.op = "run_for_paid_users"
    /\ Len(push.last.results) = 1
    /\ push.last.results[1].reason = "cooldown"
    /\ push.last.results[1].install_id = push.delivered[1].install_id

\* A run of the next day has sent again for the same registration.
SentAgainNextDay ==
    /\ push.pc = "ready"
    /\ Len(push.delivered) = 2
    /\ push.delivered[1].install_id = push.delivered[2].install_id
    /\ push.delivered[1].index_type = push.delivered[2].index_type
    /\ push.delivered[1].day = 0
    /\ push.delivered[2].day = 1

\* The store holds at most one registration per pair of install_id and
\* index_type.
UniquePairs(rows) ==
    \A i, j \in 1..Len(rows) :
        ( /\ rows[i].install_id = rows[j].install_id
          /\ rows[i].index_type = rows[j].index_type ) => i = j

\* C29: registering a pair of install_id and index_type that the store holds
\* succeeds, for a free user too, and updates the token, the threshold and
\* the paid flag of that registration in place; after any sequence of calls
\* of register the store holds at most one registration per pair.
C29_ReRegisterInPlace ==
    [][ RegisterStep =>
          LET c == push'.last
              k == Matched(push.rows, c.install_id, c.index_type)
          IN  /\ UniquePairs(push'.rows)
              /\ k # 0 =>
                    /\ c.error = None
                    /\ Len(push'.rows) = Len(push.rows)
                    /\ \A i \in 1..Len(push.rows) : i # k => push'.rows[i] = push.rows[i]
                    /\ push'.rows[k]
                         = [install_id |-> c.install_id,
                            expo_push_token |-> c.expo_push_token,
                            index_type |-> c.index_type,
                            threshold |-> c.threshold,
                            paid |-> c.paid,
                            last_notified_on |-> push.rows[k].last_notified_on]
      ]_vars

\* A free install has registered the same index a second time, with another
\* token and threshold, after a push was sent for the first registration.
C29_Witness ==
    /\ push.pc = "ready"
    /\ push.registers = 2
    /\ push.last.op = "register"
    /\ push.last.error = None
    /\ ~push.last.paid
    /\ Len(push.rows) = 1
    /\ push.rows[1].expo_push_token = "ExponentPushToken[b]"
    /\ push.rows[1].threshold = 7500
    /\ ~push.rows[1].paid
    /\ push.rows[1].last_notified_on = 0

\* The step is a pass of the retry loop that did not accept its candidate.
FailedPass ==
    /\ fn.op = "retry_loop"
    /\ fn.pc = "pass"
    /\ Len(fn'.logged) = Len(fn.logged) + 1

\* C30: in the retry loop a validation failure is handled like a fetch
\* exception: a failed pass of number n records a last error, sleeps
\* the n-th backoff when passes are left and starts the next pass, whichever
\* of the two it was; after the last pass the loop returns the last-good
\* series if there is one and raises the last error otherwise; only the error
\* recorded differs.
C30_ValidationLikeFetchError ==
    [][ /\ FailedPass =>
            /\ fn'.logged[Len(fn'.logged)] \in {"validation", "exception"}
            /\ fn'.last_error # NoError
            /\ fn'.last_error.attempt = fn.attempt
            /\ fn'.slept = SubSeq(<<200, 500>>, 1, Min(fn.attempt, 2))
            /\ IF fn.attempt < 3
               THEN fn'.pc = "pass" /\ fn'.attempt = fn.attempt + 1
               ELSE fn'.pc = "after_loop"
            /\ fn'.value = fn.value
            /\ last_good_history' = last_good_history
        /\ (fn.op = "retry_loop" /\ fn.pc = "after_loop") =>
            /\ Len(fn.logged) = 3
            /\ IF fn.index_type \in DOMAIN last_good_history
               THEN /\ fn'.pc = "returned"
                    /\ fn'.value = last_good_history[fn.index_type]
               ELSE /\ fn'.pc = "raised"
                    /\ fn'.error = fn.last_error
      ]_vars

\* A loop whose passes failed validation, raised and failed validation has
\* slept 0.2 s and 0.5 s and raised the last error.
C30_Witness ==
    /\ fn.op = "retry_loop"
    /\ fn.pc = "raised"
    /\ fn.logged = <<"validation", "exception", "validation">>
    /\ fn.slept = <<200, 500>>
    /\ fn.error.attempt = 3
    /\ fn.error.msg # "download_error"

\* A step of run_backtest from its loop: a pass or the return.
InLoop == bt.pc = "loop" /\ bt' # bt

C34_TradesAlternate ==
    \A i \in 1..Len(bt.trades) :
        /\ bt.trades[i].action = (IF i % 2 = 1 THEN "BUY" ELSE "SELL")
        /\ bt.trades[i].date >= bt.price_history[Max(bt.score_ma - 1, 199) + 1][1]
        /\ i > 1 => bt.trades[i].date > bt.trades[i - 1].date
        /\ i % 2 = 0 => bt.trades[i].quantity = bt.trades[i - 1].quantity

\* A run has bought, sold and bought again.
C34_Witness ==
    /\ Len(bt.trades) >= 3
    /\ bt.trades[3].action = "BUY"
    /\ bt.trades[2].quantity > 0

\* C35: no step of a run leaves cash negative or a trade of quantity 0 in the
\* trades, and a scored pass entered without shares and with cash below the
\* day's close leaves cash, shares and trades as they were.
C35_CashNeverNegative ==
    [][ /\ bt'.cash >= 0
        /\ \A i \in 1..Len(bt'.trades) : bt'.trades[i].quantity > 0
        /\ (ScoredPass /\ bt.shares = 0 /\ bt.cash \div PassClose = 0) =>
            /\ bt'.cash = bt.cash
            /\ bt'.shares = 0
            /\ bt'.trades = bt.trades
      ]_vars

\* The last pass had a score below buy_threshold and less cash than the
\* day's close: nothing was bought.
C35_Witness ==
    /\ bt.pc = "loop"
    /\ bt.idx > Max(bt.score_ma - 1, 199)
    /\ bt.score # NoneNumber
    /\ bt.score < bt.buy_threshold
    /\ bt.shares = 0
    /\ bt.cash >= 0
    /\ bt.cash < bt.price_history[bt.idx][2]
    /\ bt.trades = <<>>

\* The number of paid rows among the first i: the position of a paid row i in
\* list_paid().
PaidRank(rows, i) == Cardinality({ j \in 1..i : rows[j].paid })

\* C39: a run of run_for_paid_users gives one result per paid registration,
\* in their order; it sets last_notified_on to the run date for the
\* registrations it reports as sent, whose score was at least the threshold
\* and whose send was made, and leaves every other row as it was: the unpaid
\* ones, for which nothing is evaluated or sent, the ones below their
\* threshold (no send) and the ones whose send raised.
C39_MarkedOnlyWhenSent ==
    [][ RunStep =>
          LET res    == push'.last.results
              called == push'.last.called
              paid   == { i \in 1..Len(push.rows) : push.rows[i].paid }
          IN  /\ Len(push'.rows) = Len(push.rows)
              /\ Len(res) = Cardinality(paid)
              /\ Len(called) = Cardinality(paid)
              /\ \A i \in 1..Len(push.rows) :
                    LET row == push.rows[i]
                        k   == PaidRank(push.rows, i)
                    IN  IF ~row.paid THEN push'.rows[i] = row
                        ELSE
                        /\ res[k].install_id = row.install_id
                        /\ IF res[k].sent
                           THEN /\ res[k].score >= row.threshold
                                /\ called[k].send_expo_push
                                /\ push'.rows[i] =
                                      [row EXCEPT !.last_notified_on = push.today]
                           ELSE push'.rows[i] = row
                        /\ row.last_notified_on # push.today =>
                              /\ called[k].evaluate_func
                              /\ IF res[k].score < row.threshold
                                 THEN /\ res[k].reason = "below_threshold"
                                      /\ ~called[k].send_expo_push
                                 ELSE /\ res[k].reason \in {"sent", "push_failed"}
                                      /\ called[k].send_expo_push
      ]_vars

\* A run over two paid registrations and an unpaid one: the send for the
\* first raised and left it unmarked, the second was sent to at a score equal
\* to its threshold and marked.
C39_Witness ==
    /\ push.pc = "ready"
    /\ push.last.op = "run_for_paid_users"
    /\ Len(push.rows) = 3
    /\ push.rows[1].paid /\ push.rows[2].paid /\ ~push.rows[3].paid
    /\ Len(push.last.results) = 2
    /\ push.last.results[1].reason = "push_failed"
    /\ push.rows[1].last_notified_on # push.today
    /\ push.last.results[2].sent
    /\ push.last.results[2].score = push.rows[2].threshold
    /\ push.rows[2].last_notified_on = push.today

\* ------------------------------------------- whose request a series served
\* Calls of get_price_history_range and passes of get_history on one market
\* service, with a record of the requests each validated series was fetched
\* for: fn.validated holds <<index_type, start, end, series>> for every
\* series a call validated and stored as last-good, fn.last the last call.
InitServed ==
    /\ Parked
    /\ fn = [op |-> "served", validated |-> {}, last |-> [source |-> None]]
    /\ bt = NoBt
    /\ push = NoPush

\* What a call of get_price_history_range for the range leaves in fn.
Served(o, index_type, start, end) ==
    [fn EXCEPT !.validated = IF o.kind = "value" /\ o.source \in {"primary", "nav"}
                             THEN @ \cup {<<index_type, start, end, o.value>>}
                             ELSE @,
               !.last = [source |-> o.source, index_type |-> index_type,
                         start |-> start, end |-> end, kind |-> o.kind,
                         value |-> o.value]]

\* get_price_history_range(start, end, index_type=index_type), as
\* run_backtest calls it.
ServeRange(index_type, start, end) ==
    /\ fn.op = "served"
    /\ calls < MaxCalls
    /\ calls' = calls + 1
    /\ \E o \in GetPriceHistoryRange(start, end, TRUE, index_type) :
          /\ last_good_history' = o.last_good_history
          /\ fn' = Served(o, index_type, start, end)
    /\ UNCHANGED <<config, cache, now, pc, hist, result, bt, push>>

\* get_history(index_type, start, end) on a miss, lines 53-58 of its first
\* pass: what the market service returns is stored under the key.
ServeHistory(index_type, start, end) ==
    /\ fn.op = "served"
    /\ calls < MaxCalls
    /\ ~CacheHit(CacheKey(index_type, start, end), now)
    /\ calls' = calls + 1
    /\ \E o \in GetPriceHistoryRange(start, end, TRUE, index_type) :
          /\ last_good_history' = o.last_good_history
          /\ fn' = Served(o, index_type, start, end)
          /\ cache' = IF Usable(o)
                      THEN StoreCache(CacheKey(index_type, start, end), o.value, now)
                      ELSE cache
    /\ UNCHANGED <<config, now, pc, hist, result, bt, push>>

NextServed ==
    \/ \E r \in Ranges : ServeRange(focus, r[1], r[2])
    \/ \E r \in Ranges : ServeHistory(focus, r[1], r[2])

SpecServed == InitServed /\ [][NextServed]_vars

\* C36: a last-good series that get_price_history_range returns as fallback
\* was validated for a request of the same index and the same (start, end),
\* and no cache entry holds a series that was validated for requests of
\* other ranges than the one of its key only.
C36_LastGoodOfSameRange ==
    /\ (fn.last.source = "last_good") =>
          <<fn.last.index_type, fn.last.start, fn.last.end, fn.last.value>>
              \in fn.validated
    /\ \A key \in DOMAIN cache :
          (\E v \in fn.validated : v[4] = cache[key].data) =>
              <<key[1], key[2], key[3], cache[key].data>> \in fn.validated

\* A get_history call is in its retry loop or past it.
InProgress == pc \in {"history_loop", "history_exhausted"}

\* C33: a get_history call in progress is at pass 1..max_retries and has made
\* at most max_retries x 3 downloads, and it comes to its end: it returns a
\* series or raises.
C33_Terminates ==
    /\ [](InProgress => /\ hist.attempt \in 1..MaxRetries
                        /\ hist.downloads <= MaxRetries * Len(Backoffs))
    /\ InProgress ~> (/\ pc = "returned"
                      /\ result.op = "get_history"
                      /\ result.kind \in {"value", "raise"})

\* A call has raised after three passes of three downloads each.
C33_Witness ==
    /\ Done("get_history")
    /\ result.kind = "raise"
    /\ result.downloads = MaxRetries * Len(Backoffs)

\* ------------------------------------- get_history called by several threads
\* The endpoints of main.py are plain functions, which the server runs on a
\* pool of threads: calls of get_history on the one PriceHistoryService run
\* side by side.  Here two threads call it for one key, on any market
\* service: each call of get_price_history_range gives a new series, an
\* empty one, or raises.  The cache maps the key to a reference to a
\* CacheEntry object; fn.heap holds the objects, fn.th the locals of each
\* thread, fn.stored the (data, fetched_at) pairs CacheEntry was called with,
\* and fn.step what the last step was.
Threads == {1, 2}

ThreadKey == CacheKey("SP500", 1826, 1916)

\* What the n-th successful call of the market service returns.
SeriesNo(n) == Flat(2, 100000 + 1000 * n, 1)

Idle == [pc |-> "idle", now |-> 0, cached |-> 0, seen_at |-> NoneNumber,
         attempt |-> 0, slept |-> 0, outcome |-> None, value |-> <<>>]

NoStep == [t |-> 0, kind |-> None]

InitThreads ==
    /\ Parked
    /\ fn = [op |-> "threads", heap |-> <<>>, th |-> [t \in Threads |-> Idle],
             stored |-> {}, fetched |-> 0, step |-> NoStep]
    /\ bt = NoBt
    /\ push = NoPush

\* An entry written over the object the key already refers to, the data
\* first: the object holds the new data with the old fetched_at.
StoreEntryInPlace(heap, c, key, history, t) ==
    IF key \in DOMAIN c
    THEN [heap |-> [heap EXCEPT ![c[key]].data = history], cache |-> c]
    ELSE [heap |-> Append(heap, [data |-> history, fetched_at |-> t]),
          cache |-> (key :> Len(heap) + 1) @@ c]

\* self._cache[key] = CacheEntry(data=history, fetched_at=now): a new object
\* is built, and the key then refers to it.
StoreEntry(heap, c, key, history, t) ==
    [heap |-> Append(heap, [data |-> history, fetched_at |-> t]),
     cache |-> (key :> Len(heap) + 1) @@ c]

\* Lines 40-42: now = datetime.utcnow(); cached = self._cache.get(key)
Enter(t) ==
    /\ fn.th[t].pc = "idle"
    /\ calls < MaxCalls
    /\ calls' = calls + 1
    /\ fn' = [fn EXCEPT !.th[t] = [Idle EXCEPT !.pc = "check", !.now = now,
                                      !.cached = IF ThreadKey \in DOMAIN cache
                                                 THEN cache[ThreadKey] ELSE 0],
                        !.step = [t |-> t, kind |-> "enter"]]
    /\ UNCHANGED <<config, last_good_history, cache, now, pc, hist, result, bt, push>>

\* Line 44: if cached and now - cached.fetched_at < self._ttl
CheckCached(t) ==
    /\ fn.th[t].pc = "check"
    /\ LET l == fn.th[t]
           at == IF l.cached = 0 THEN NoneNumber ELSE fn.heap[l.cached].fetched_at
       IN  fn' = [fn EXCEPT !.th[t].seen_at = at,
                           !.th[t].pc = IF l.cached # 0 /\ l.now - at < Ttl
                                        THEN "hit" ELSE "loop",
                           !.th[t].attempt = IF l.cached # 0 /\ l.now - at < Ttl
                                             THEN 0 ELSE 1,
                           !.step = [t |-> t, kind |-> "check"]]
    /\ UNCHANGED <<acquisition, bt, push>>

\* Line 46: return cached.data
ReturnCached(t) ==
    /\ fn.th[t].pc = "hit"
    /\ fn' = [fn EXCEPT !.th[t].pc = "returned", !.th[t].outcome = "hit",
                        !.th[t].value = fn.heap[fn.th[t].cached].data,
                        !.step = [t |-> t, kind |-> "hit"]]
    /\ UNCHANGED <<acquisition, bt, push>>

\* Lines 53-65: a pass in which the market service returns a series.
PassStores(t) ==
    /\ fn.th[t].pc = "loop"
    /\ LET history == SeriesNo(fn.fetched + 1)
           s == StoreEntry(fn.heap, cache, ThreadKey, history, fn.th[t].now)
       IN  /\ cache' = s.cache
           /\ fn' = [fn EXCEPT !.heap = s.heap,
                               !.stored = @ \cup {<<history, fn.th[t].now>>},
                               !.fetched = @ + 1,
                               !.th[t].pc = "returned",
                               !.th[t].outcome = "fetched",
                               !.th[t].value = history,
                               !.step = [t |-> t, kind |-> "store"]]
    /\ UNCHANGED <<config, last_good_history, now, pc, hist, result, calls, bt, push>>

\* Lines 53-57 and 66-75: a pass in which the market service raises or returns
\* an empty series; time.sleep follows unless it was the last pass.
PassFails(t) ==
    /\ fn.th[t].pc = "loop"
    /\ fn' = [fn EXCEPT !.th[t].pc = IF LoopGoesOn(fn.th[t].attempt)
                                     THEN "sleep" ELSE "exhausted",
                        !.step = [t |-> t, kind |-> "fail"]]
    /\ UNCHANGED <<acquisition, bt, push>>

\* time.sleep(self._retry_delay) is over: the next pass.
Wake(t) ==
    /\ fn.th[t].pc = "sleep"
    /\ fn' = [fn EXCEPT !.th[t].pc = "loop", !.th[t].attempt = @ + 1,
                        !.step = [t |-> t, kind |-> "wake"]]
    /\ UNCHANGED <<acquisition, bt, push>>

\* The error raised whether or not an entry was found.
RaiseAlways(heap, cached) == [outcome |-> "raised", value |-> <<>>]

\* if cached: return cached.data; raise PriceHistoryFetchError(...)
StaleOrRaise(heap, cached) ==
    IF cached # 0 THEN [outcome |-> "stale", value |-> heap[cached].data]
    ELSE [outcome |-> "raised", value |-> <<>>]

\* Lines 77-87: return cached.data, or raise PriceHistoryFetchError.
AfterPasses(t) ==
    /\ fn.th[t].pc = "exhausted"
    /\ fn' = [fn EXCEPT !.th[t].pc = "returned",
                        !.th[t].outcome = StaleOrRaise(fn.heap, fn.th[t].cached).outcome,
                        !.th[t].value = StaleOrRaise(fn.heap, fn.th[t].cached).value,
                        !.step = [t |-> t, kind |-> "after"]]
    /\ UNCHANGED <<acquisition, bt, push>>

\* The caller has taken what the call gave.
Taken(t) ==
    /\ fn.th[t].pc = "returned"
    /\ fn' = [fn EXCEPT !.th[t] = Idle, !.step = [t |-> t, kind |-> "taken"]]
    /\ UNCHANGED <<acquisition, bt, push>>

\* Time passes, for the threads asleep as sleep.
Elapse ==
    /\ now + 5 <= MaxTime
    /\ now' = now + 5
    /\ fn' = [fn EXCEPT !.th = [t \in Threads |->
                                  IF fn.th[t].pc = "sleep"
                                  THEN [fn.th[t] EXCEPT !.slept = @ + 5]
                                  ELSE fn.th[t]],
                        !.step = [t |-> 0, kind |-> "elapse"]]
    /\ UNCHANGED <<config, last_good_history, cache, pc, hist, result, calls, bt, push>>

NextThreads ==
    \/ \E t \in Threads : Enter(t)
    \/ \E t \in Threads : CheckCached(t)
    \/ \E t \in Threads : ReturnCached(t)
    \/ \E t \in Threads : PassStores(t)
    \/ \E t \in Threads : PassFails(t)
    \/ \E t \in Threads : Wake(t)
    \/ \E t \in Threads : AfterPasses(t)
    \/ \E t \in Threads : Taken(t)
    \/ Elapse

SpecThreads == InitThreads /\ [][NextThreads]_vars

\* C32: the object the cache refers to, and what a call that answers from an
\* entry has read of it (fetched_at at the cache check, data at the return),
\* are a series and the fetched_at that CacheEntry was given together.
C32_WholeEntries ==
    fn.op = "threads" =>
        /\ \A k \in DOMAIN cache :
              <<fn.heap[cache[k]].data, fn.heap[cache[k]].fetched_at>> \in fn.stored
        /\ \A t \in Threads :
              fn.th[t].outcome \in {"hit", "stale"} =>
                  <<fn.th[t].value, fn.th[t].seen_at>> \in fn.stored

\* Thread 1 has answered from the entry it found, which thread 2 replaced
\* after thread 1 had got hold of it.
C32_Witness ==
    /\ fn.op = "threads"
    /\ fn.step = [t |-> 1, kind |-> "hit"]
    /\ fn.th[1].outcome = "hit"
    /\ cache[ThreadKey] # fn.th[1].cached
    /\ fn.th[2].outcome = "fetched"
    /\ fn.th[1].value # fn.heap[cache[ThreadKey]].data

\* C37: a write of the entry of the key never puts an earlier fetched_at in
\* the place of a later one, and the fetched_at it writes is not earlier than
\* the time of the write less the time the call has slept between passes.
C37_FetchedAtMonotone ==
    [][ fn'.step.kind = "store" =>
          /\ ThreadKey \in DOMAIN cache =>
                fn'.heap[cache'[ThreadKey]].fetched_at
                    >= fn.heap[cache[ThreadKey]].fetched_at
          /\ fn'.heap[cache'[ThreadKey]].fetched_at
                >= now - fn.th[fn'.step.t].slept
      ]_vars

\* C38: the code after the loop changes neither the cache nor an entry; it
\* returns the data of the entry the call found, which had expired, and
\* raises only when the call found none.  A failed pass changes neither.
C38_StaleOnExhaustion ==
    [][ \A t \in Threads :
          /\ (fn.th[t].pc = "exhausted" /\ fn'.th[t].pc = "returned") =>
                /\ cache' = cache
                /\ fn'.heap = fn.heap
                /\ fn.th[t].attempt = MaxRetries
                /\ IF fn.th[t].cached # 0
                   THEN /\ fn'.th[t].outcome = "stale"
                        /\ fn'.th[t].value = fn.heap[fn.th[t].cached].data
                        /\ fn.th[t].now - fn.heap[fn.th[t].cached].fetched_at >= Ttl
                   ELSE /\ fn'.th[t].outcome = "raised"
          /\ (fn.th[t].pc = "loop" /\ fn'.th[t].pc \in {"sleep", "exhausted"}) =>
                /\ cache' = cache
                /\ fn'.heap = fn.heap
      ]_vars

\* A call whose passes all failed has returned the data of the expired entry
\* of the key, which the cache still refers to.
C38_Witness ==
    /\ fn.op = "threads"
    /\ fn.step.kind = "after"
    /\ fn.th[fn.step.t].outcome = "stale"
    /\ cache[ThreadKey] = fn.th[fn.step.t].cached
    /\ fn.th[fn.step.t].value = fn.heap[cache[ThreadKey]].data
    /\ fn.th[fn.step.t].now - fn.heap[cache[ThreadKey]].fetched_at >= Ttl

====
